---- MODULE Spec2Model ----
(***************************************************************************)
(* The question-sourcing pipeline of the quiz application:                 *)
(*   core/ai_generator.py            AIGenerator                           *)
(*   core/question_manager.py        QuestionManager                       *)
(*   core/category_question_manager.py  CategoryQuestionManager            *)
(*   core/user_history.py            UserHistory                           *)
(*                                                                         *)
(* A Python str is a sequence of one-character strings, so that lower(),   *)
(* split() and the regular expressions of the sample filter are computed   *)
(* character by character.  A question record is                           *)
(*   [question, options, correct_answer, category, difficulty].            *)
(***************************************************************************)
EXTENDS Naturals, Sequences, FiniteSets, TLC

VARIABLES
    \* AIGenerator: the fields of the one generator object
    use_fallback,           \* self.use_fallback
    transformers_available, \* the module flag TRANSFORMERS_AVAILABLE
    is_model_ready,         \* self.is_model_ready
    local_model,            \* self.local_model: None, or the model name it was loaded from
    tokenizer,              \* self.tokenizer: None, or the model name it was loaded from
    generator,              \* self.generator: None, or the model name the handle was built for
    model_name,             \* self.model_name
    model_loading_attempts, \* self.model_loading_attempts
    load_pc,                \* the thread __init__ starts, running _load_local_model: "load"
                            \* (entering an activation), the call of the try block that
                            \* is running, or "done"
    load_held,              \* the argument that call was given, or None
    \* change_model: the thread the settings dialog runs it on
    chg_pc,         \* "idle", "start" (line 1860), a position in _load_local_model, "returned"
    chg_held,       \* the argument the running call of the try block was given, or None
    chg_args,       \* new_model_name, or None
    chg_result,     \* the returned value, or None
    chg_before,     \* history: the fields of the generator when the call was made, or None
    chg_loads,      \* history: the activations of _load_local_model the call has entered
    chg_calls,      \* the number of calls made
    \* the threads the screens start on get_questions and on regenerate_questions
    th,             \* thread -> [pc, category, left, attempt]; pc is "idle", "model_stage"
                    \* (line 1237 of generate_questions), "worker", "inference" (inside
                    \* self.generator(...)), "stages" (line 1255 on) or "done"
    fallback_questions,     \* self.fallback_questions: category -> difficulty -> list
    geography_questions,    \* self.geography_questions: difficulty -> list
    \* _generate_ai_questions: one activation (called directly, or run by the executor)
    ai_pc,          \* "idle", "attempt" (at the top of the for loop), "returned"
    ai_caller,      \* "direct" or "executor"
    ai_args,        \* [category, difficulty, num_questions]
    ai_attempt,     \* the loop variable `attempt`
    ai_prompt,      \* prompt_template: the prompt the next generator call is given
    ai_questions,   \* the local `questions`
    ai_emitted,     \* history: for each record of ai_questions, the object the model emitted
    ai_log,         \* history: for each iteration of the loop, the prompt given, what
                    \* happened and the number of records appended to `questions`
    ai_result,      \* the returned list, or None
    \* _fetch_questions_from_api called directly
    api_pc,         \* "idle", "returned"
    api_args,       \* [category, difficulty, num_questions]
    api_response,   \* history: what urlopen and json.loads did
    api_result,     \* the returned list, or None
    \* generate_questions: one activation
    gq_pc,          \* the stage about to run
    gq_args,        \* [category, difficulty, num_questions]
    gq_questions,   \* the local `questions`
    gq_filtered,    \* the local `filtered_questions`
    gq_result,      \* the returned list, or None
    gq_trace,       \* history: the stages entered, in order
    gq_checked,     \* history: what the test of line 1239 read, or None
    \* _filter_sample_questions called directly
    f_pc,           \* "called", "returned"
    f_questions,    \* the argument `questions`
    f_result,       \* the returned list, or None
    \* QuestionManager, its CategoryQuestionManagers and its UserHistory
    qm_questions,   \* QuestionManager.questions
    qm_file,        \* data/questions.json
    cm_store,       \* category -> questions_by_difficulty of the manager of the category
    cm_files,       \* file name -> the category files there are in the data directory
    uh_user,        \* QuestionManager.current_user, or None
    uh_seen,        \* UserHistory.seen_questions: category -> set of hashes
    uh_file,        \* data/user_history_<user>.json
    \* QuestionManager.get_questions: one activation
    qm_pc,          \* "idle", "generating", "select", "returned", "raised"
    qm_args,        \* [category, difficulty, count]
    qm_unseen,      \* the local `unseen_questions`
    qm_seen,        \* the local `seen_questions`
    qm_alias,       \* `unseen_questions` is the list object of the bucket of the store
    qm_result,      \* the returned list, or None
    qm_calls,       \* the number of calls made
    qm_before,      \* history: seen_questions of the user when the call was made, or None
    qm_new,         \* the local `new_questions`
    qm_held,        \* history: questions_by_difficulty of the category when the call was
                    \* made, or None
    \* a CategoryQuestionManager or a UserHistory operation called directly
    st_pc,          \* "idle", "returned", "raised"
    st_call,        \* history: the operation, its arguments and what its write did, or None
    st_result,      \* the returned value, or None
    st_marked,      \* history: the arguments of the add_seen_questions calls made on the
                    \* UserHistory object since it was constructed or cleared
    st_calls        \* the number of calls made

chgFrame == <<chg_pc, chg_held, chg_args, chg_result, chg_before, chg_loads, chg_calls,
              load_held>>
aiModel == <<is_model_ready, local_model, tokenizer, generator, model_name,
             model_loading_attempts, load_pc, chgFrame, th>>
aiFields == <<use_fallback, transformers_available, aiModel,
              fallback_questions, geography_questions>>
aiFrame == <<ai_pc, ai_caller, ai_args, ai_attempt, ai_prompt, ai_questions,
             ai_emitted, ai_log, ai_result>>
apiFrame == <<api_pc, api_args, api_response, api_result>>
gqFrame == <<gq_pc, gq_args, gq_questions, gq_filtered, gq_result, gq_trace, gq_checked>>
fFrame == <<f_pc, f_questions, f_result>>
qmFields == <<qm_questions, qm_file, cm_store, cm_files, uh_user, uh_seen, uh_file>>
stFrame == <<st_pc, st_call, st_result, st_marked, st_calls>>
qmFrame == <<qmFields, qm_pc, qm_args, qm_unseen, qm_seen, qm_alias, qm_result, qm_calls,
             qm_before, qm_new, qm_held, stFrame>>
vars == <<aiFields, aiFrame, apiFrame, gqFrame, fFrame, qmFrame>>

None == "None"

(***************************************************************************)
(* Python str and re                                                       *)
(***************************************************************************)
LowerCase == <<"a","b","c","d","e","f","g","h","i","j","k","l","m","n","o","p","q","r","s","t","u","v","w","x","y","z">>
UpperCase == <<"A","B","C","D","E","F","G","H","I","J","K","L","M","N","O","P","Q","R","S","T","U","V","W","X","Y","Z">>
\* the characters outside ASCII of the built-in question texts; all are in \w
OtherLetters == {"á", "í", "ë", "ç", "½"}
Digits == {"0", "1", "2", "3", "4", "5", "6", "7", "8", "9"}
Whitespace == {" ", "\t", "\n"}
Letters == {LowerCase[i] : i \in 1..26} \cup {UpperCase[i] : i \in 1..26} \cup OtherLetters
\* the class \w of re
WordChars == Letters \cup Digits \cup {"_"}

\* str.lower(), one character
LowerMap == [c \in {UpperCase[i] : i \in 1..26} |->
                LowerCase[CHOOSE i \in 1..26 : UpperCase[i] = c]]

lower_char(c) == IF c \in DOMAIN LowerMap THEN LowerMap[c] ELSE c

\* str.lower()
lower(s) == [i \in 1..Len(s) |-> lower_char(s[i])]

\* len(s.split()): the number of maximal runs of non-whitespace characters
split_len(s) ==
    Cardinality({i \in 1..Len(s) :
        /\ s[i] \notin Whitespace
        /\ (i = 1 \/ s[i - 1] \in Whitespace)})

\* s.endswith(c) for a one-character c
endswith(s, c) == Len(s) > 0 /\ s[Len(s)] = c

\* A pattern is a sequence of atoms:
\*   <<"lit", chars>>  the literal characters   <<"plus", class>>  class+
\*   <<"opt", class>>  class?
\* re_ends is the set of positions at which a match of atoms k.. can end when it
\* starts at a position of `starts` (a position is the index of the next character).
\* the position after the longest run of characters of `class` that starts at p
RECURSIVE run_end(_, _, _)
run_end(text, class, p) ==
    IF p > Len(text) \/ text[p] \notin class THEN p
    ELSE run_end(text, class, p + 1)

RECURSIVE re_ends(_, _, _, _)
re_ends(pattern, k, text, starts) ==
    IF k > Len(pattern) \/ starts = {} THEN starts
    ELSE LET atom == pattern[k]
             n == Len(text)
             next ==
                IF atom[1] = "lit"
                THEN {p + Len(atom[2]) : p \in {p \in starts :
                        /\ p + Len(atom[2]) - 1 <= n
                        /\ \A j \in 1..Len(atom[2]) :
                              lower_char(text[p + j - 1]) = lower_char(atom[2][j])}}
                ELSE IF atom[1] = "plus"
                THEN UNION {(p + 1)..run_end(text, atom[2], p) : p \in starts}
                ELSE starts \cup {p + 1 : p \in {p \in starts :
                        p <= n /\ lower_char(text[p]) \in atom[2]}}
         IN re_ends(pattern, k + 1, text, next)

\* re.search(pattern, text, re.IGNORECASE) is not None
re_search(pattern, text) == re_ends(pattern, 1, text, 1..(Len(text) + 1)) # {}

Ws == <<"plus", Whitespace>>
Word == <<"plus", WordChars>>
Number == <<"plus", Digits>>
OptAbc == <<"opt", {"a", "b", "c"}>>
Lit(s) == <<"lit", s>>

(***************************************************************************)
(* AIGenerator._filter_sample_questions                                    *)
(***************************************************************************)
sample_patterns == <<
    <<Lit(<<"s","a","m","p","l","e">>), Ws, Word, Ws, Lit(<<"q","u","e","s","t","i","o","n">>)>>,
    <<Lit(<<"s","a","m","p","l","e">>), Ws, Lit(<<"q","u","e","s","t","i","o","n">>)>>,
    <<Word, Ws, Lit(<<"s","a","m","p","l","e">>), Ws, Lit(<<"q","u","e","s","t","i","o","n">>)>>,
    <<Word, Ws, Lit(<<"e","a","s","y">>), Ws, Lit(<<"q","u","e","s","t","i","o","n">>)>>,
    <<Word, Ws, Lit(<<"m","e","d","i","u","m">>), Ws, Lit(<<"q","u","e","s","t","i","o","n">>)>>,
    <<Word, Ws, Lit(<<"h","a","r","d">>), Ws, Lit(<<"q","u","e","s","t","i","o","n">>)>>,
    <<Lit(<<"e","a","s","y">>), Ws, Lit(<<"q","u","e","s","t","i","o","n">>), Ws, Lit(<<"#">>), Number>>,
    <<Lit(<<"m","e","d","i","u","m">>), Ws, Lit(<<"q","u","e","s","t","i","o","n">>), Ws, Lit(<<"#">>), Number>>,
    <<Lit(<<"h","a","r","d">>), Ws, Lit(<<"q","u","e","s","t","i","o","n">>), Ws, Lit(<<"#">>), Number>>,
    <<Lit(<<"c","o","r","r","e","c","t">>), Ws, Lit(<<"a","n","s","w","e","r">>), Ws, Lit(<<"#">>), Number>>,
    <<Lit(<<"w","r","o","n","g">>), Ws, Lit(<<"a","n","s","w","e","r">>), Ws, OptAbc, Ws, Lit(<<"#">>), Number>>,
    <<Lit(<<"i","n","c","o","r","r","e","c","t">>), Ws, Lit(<<"a","n","s","w","e","r">>), Ws, OptAbc, Ws, Lit(<<"#">>), Number>>,
    <<Lit(<<"t","r","e","a","s","u","r","e">>), Ws, Lit(<<"h","u","n","t">>)>>,
    <<Lit(<<"t","e","c","h","n","o","l","o","g","y">>), Ws, Lit(<<"s","a","m","p","l","e">>)>>,
    <<Lit(<<"t","e","c","h","n","o","l","o","g","y">>), Ws, Lit(<<"e","a","s","y">>), Ws, Lit(<<"q","u","e","s","t","i","o","n">>)>>,
    <<Lit(<<"s","a","m","p","l","e">>)>>,
    <<Lit(<<"#">>), Number>> >>

\* the dict category_patterns: its keys, and the patterns of a key
category_pattern_keys == {<<"M","o","v","i","e","s">>, <<"T","e","c","h","n","o","l","o","g","y">>, <<"S","c","i","e","n","c","e">>, <<"L","i","t","e","r","a","c","y">>}

category_patterns(key) ==
    IF key = <<"M","o","v","i","e","s">> THEN <<
        <<Lit(<<"s","a","m","p","l","e">>), Ws, Lit(<<"m","o","v","i","e","s">>)>>,
        <<Lit(<<"m","o","v","i","e","s">>), Ws, Lit(<<"s","a","m","p","l","e">>)>>,
        <<Lit(<<"m","o","v","i","e">>), Ws, Lit(<<"s","a","m","p","l","e">>)>>,
        <<Lit(<<"s","a","m","p","l","e">>), Ws, Lit(<<"m","o","v","i","e">>)>> >>
    ELSE IF key = <<"T","e","c","h","n","o","l","o","g","y">> THEN <<
        <<Lit(<<"t","e","c","h","n","o","l","o","g","y">>), Ws, Lit(<<"s","a","m","p","l","e">>)>>,
        <<Lit(<<"s","a","m","p","l","e">>), Ws, Lit(<<"t","e","c","h","n","o","l","o","g","y">>)>>,
        <<Lit(<<"t","e","c","h">>), Ws, Lit(<<"s","a","m","p","l","e">>)>>,
        <<Lit(<<"s","a","m","p","l","e">>), Ws, Lit(<<"t","e","c","h">>)>> >>
    ELSE IF key = <<"S","c","i","e","n","c","e">> THEN <<
        <<Lit(<<"s","c","i","e","n","c","e">>), Ws, Lit(<<"s","a","m","p","l","e">>)>>,
        <<Lit(<<"s","a","m","p","l","e">>), Ws, Lit(<<"s","c","i","e","n","c","e">>)>> >>
    ELSE <<
        <<Lit(<<"l","i","t","e","r","a","c","y">>), Ws, Lit(<<"s","a","m","p","l","e">>)>>,
        <<Lit(<<"s","a","m","p","l","e">>), Ws, Lit(<<"l","i","t","e","r","a","c","y">>)>> >>

\* some pattern of the list matches the text
any_pattern(patterns, text) ==
    \E i \in 1..Len(patterns) : re_search(patterns[i], text)

\* is_sample without the test of the question mark
is_sample_without_question_mark(q) ==
    LET question_text == lower(q.question)
    IN  \/ any_pattern(sample_patterns, question_text)
        \/ \E i \in 1..Len(q.options) : any_pattern(sample_patterns, lower(q.options[i]))
        \/ split_len(question_text) < 4

\* the value of the local is_sample at the end of one iteration of the loop over q
is_sample(q) ==
    LET question_text == lower(q.question)
        category == lower(q.category)
    IN  IF any_pattern(sample_patterns, question_text) THEN TRUE
        ELSE IF /\ category \in category_pattern_keys
                /\ any_pattern(category_patterns(category), question_text) THEN TRUE
        ELSE IF \E i \in 1..Len(q.options) :
                    any_pattern(sample_patterns, lower(q.options[i])) THEN TRUE
        ELSE IF split_len(question_text) < 4 THEN TRUE
        ELSE ~endswith(question_text, "?") /\ ~re_search(<<Lit(<<"?">>)>>, question_text)


(***************************************************************************)
(* Question records and the built-in question tables                       *)
(***************************************************************************)
Q(q, o, a, c, d) ==
    [question |-> q, options |-> o, correct_answer |-> a, category |-> c, difficulty |-> d]

\* str(n) for an int n >= 0
RECURSIVE str_int(_)
str_int(n) ==
    LET digit == <<"0","1","2","3","4","5","6","7","8","9">>[(n % 10) + 1]
    IN  IF n < 10 THEN <<digit>> ELSE Append(str_int(n \div 10), digit)

\* a sample that draws one element again and again
sample_with_repeats(population, k) ==
    {[i \in 1..k |-> population[n]] : n \in 1..Len(population)}

\* random.sample(population, k): every ordered choice of k distinct positions
random_sample(population, k) ==
    {[i \in 1..k |-> population[f[i]]] :
        f \in {f \in [1..k -> 1..Len(population)] :
                \A i, j \in 1..k : i # j => f[i] # f[j]}}

\* random.shuffle(x): every order of the elements of x
random_shuffle(x) ==
    {[i \in 1..Len(x) |-> x[p[i]]] : p \in Permutations(1..Len(x))}

\* the literal lists of _create_fallback_questions, before the filling loop
hardcoded_questions(category, difficulty) ==
    IF category = <<"S","c","i","e","n","c","e">> /\ difficulty = <<"e","a","s","y">> THEN <<
        Q(<<"W","h","a","t"," ","i","s"," ","t","h","e"," ","c","h","e","m","i","c","a","l"," ","s","y","m","b","o","l"," ","f","o","r"," ","w","a","t","e","r","?">>,
            <<<<"H","2","O">>, <<"C","O","2">>, <<"N","a","C","l">>, <<"O","2">>>>,
            <<"H","2","O">>, <<"S","c","i","e","n","c","e">>, <<"e","a","s","y">>),
        Q(<<"W","h","i","c","h"," ","p","l","a","n","e","t"," ","i","s"," ","k","n","o","w","n"," ","a","s"," ","t","h","e"," ","R","e","d"," ","P","l","a","n","e","t","?">>,
            <<<<"M","a","r","s">>, <<"V","e","n","u","s">>, <<"J","u","p","i","t","e","r">>, <<"M","e","r","c","u","r","y">>>>,
            <<"M","a","r","s">>, <<"S","c","i","e","n","c","e">>, <<"e","a","s","y">>),
        Q(<<"W","h","a","t"," ","i","s"," ","t","h","e"," ","c","l","o","s","e","s","t"," ","s","t","a","r"," ","t","o"," ","E","a","r","t","h","?">>,
            <<<<"S","u","n">>, <<"P","r","o","x","i","m","a"," ","C","e","n","t","a","u","r","i">>, <<"A","l","p","h","a"," ","C","e","n","t","a","u","r","i">>, <<"S","i","r","i","u","s">>>>,
            <<"S","u","n">>, <<"S","c","i","e","n","c","e">>, <<"e","a","s","y">>) >>
    ELSE IF category = <<"S","c","i","e","n","c","e">> /\ difficulty = <<"m","e","d","i","u","m">> THEN <<
        Q(<<"W","h","i","c","h"," ","e","l","e","m","e","n","t"," ","h","a","s"," ","t","h","e"," ","a","t","o","m","i","c"," ","n","u","m","b","e","r"," ","7","9","?">>,
            <<<<"G","o","l","d">>, <<"S","i","l","v","e","r">>, <<"P","l","a","t","i","n","u","m">>, <<"C","o","p","p","e","r">>>>,
            <<"G","o","l","d">>, <<"S","c","i","e","n","c","e">>, <<"m","e","d","i","u","m">>),
        Q(<<"W","h","a","t"," ","i","s"," ","t","h","e"," ","p","r","o","c","e","s","s"," ","c","a","l","l","e","d"," ","w","h","e","r","e"," ","p","l","a","n","t","s"," ","m","a","k","e"," ","t","h","e","i","r"," ","o","w","n"," ","f","o","o","d"," ","u","s","i","n","g"," ","s","u","n","l","i","g","h","t","?">>,
            <<<<"P","h","o","t","o","s","y","n","t","h","e","s","i","s">>, <<"R","e","s","p","i","r","a","t","i","o","n">>, <<"D","i","g","e","s","t","i","o","n">>, <<"F","e","r","m","e","n","t","a","t","i","o","n">>>>,
            <<"P","h","o","t","o","s","y","n","t","h","e","s","i","s">>, <<"S","c","i","e","n","c","e">>, <<"m","e","d","i","u","m">>) >>
    ELSE IF category = <<"S","c","i","e","n","c","e">> /\ difficulty = <<"h","a","r","d">> THEN <<
        Q(<<"W","h","a","t"," ","i","s"," ","t","h","e"," ","h","a","l","f","-","l","i","f","e"," ","o","f"," ","C","a","r","b","o","n","-","1","4","?">>,
            <<<<"5",",","7","3","0"," ","y","e","a","r","s">>, <<"1",",","6","0","0"," ","y","e","a","r","s">>, <<"1","0",",","0","0","0"," ","y","e","a","r","s">>, <<"3",",","2","0","0"," ","y","e","a","r","s">>>>,
            <<"5",",","7","3","0"," ","y","e","a","r","s">>, <<"S","c","i","e","n","c","e">>, <<"h","a","r","d">>),
        Q(<<"W","h","i","c","h"," ","s","u","b","a","t","o","m","i","c"," ","p","a","r","t","i","c","l","e"," ","h","a","s"," ","a"," ","p","o","s","i","t","i","v","e"," ","c","h","a","r","g","e","?">>,
            <<<<"P","r","o","t","o","n">>, <<"N","e","u","t","r","o","n">>, <<"E","l","e","c","t","r","o","n">>, <<"P","o","s","i","t","r","o","n">>>>,
            <<"P","r","o","t","o","n">>, <<"S","c","i","e","n","c","e">>, <<"h","a","r","d">>) >>
    ELSE IF category = <<"H","i","s","t","o","r","y">> /\ difficulty = <<"e","a","s","y">> THEN <<
        Q(<<"W","h","o"," ","w","a","s"," ","t","h","e"," ","f","i","r","s","t"," ","P","r","e","s","i","d","e","n","t"," ","o","f"," ","t","h","e"," ","U","n","i","t","e","d"," ","S","t","a","t","e","s","?">>,
            <<<<"G","e","o","r","g","e"," ","W","a","s","h","i","n","g","t","o","n">>, <<"T","h","o","m","a","s"," ","J","e","f","f","e","r","s","o","n">>, <<"A","b","r","a","h","a","m"," ","L","i","n","c","o","l","n">>, <<"J","o","h","n"," ","A","d","a","m","s">>>>,
            <<"G","e","o","r","g","e"," ","W","a","s","h","i","n","g","t","o","n">>, <<"H","i","s","t","o","r","y">>, <<"e","a","s","y">>),
        Q(<<"I","n"," ","w","h","a","t"," ","y","e","a","r"," ","d","i","d"," ","W","o","r","l","d"," ","W","a","r"," ","I","I"," ","e","n","d","?">>,
            <<<<"1","9","4","5">>, <<"1","9","3","9">>, <<"1","9","4","2">>, <<"1","9","4","4">>>>,
            <<"1","9","4","5">>, <<"H","i","s","t","o","r","y">>, <<"e","a","s","y">>) >>
    ELSE IF category = <<"G","e","o","g","r","a","p","h","y">> /\ difficulty = <<"e","a","s","y">> THEN <<
        Q(<<"W","h","a","t"," ","i","s"," ","t","h","e"," ","c","a","p","i","t","a","l"," ","o","f"," ","F","r","a","n","c","e","?">>,
            <<<<"P","a","r","i","s">>, <<"L","o","n","d","o","n">>, <<"B","e","r","l","i","n">>, <<"M","a","d","r","i","d">>>>,
            <<"P","a","r","i","s">>, <<"G","e","o","g","r","a","p","h","y">>, <<"e","a","s","y">>),
        Q(<<"W","h","i","c","h"," ","o","c","e","a","n"," ","i","s"," ","t","h","e"," ","l","a","r","g","e","s","t","?">>,
            <<<<"P","a","c","i","f","i","c"," ","O","c","e","a","n">>, <<"A","t","l","a","n","t","i","c"," ","O","c","e","a","n">>, <<"I","n","d","i","a","n"," ","O","c","e","a","n">>, <<"A","r","c","t","i","c"," ","O","c","e","a","n">>>>,
            <<"P","a","c","i","f","i","c"," ","O","c","e","a","n">>, <<"G","e","o","g","r","a","p","h","y">>, <<"e","a","s","y">>),
        Q(<<"W","h","a","t"," ","i","s"," ","t","h","e"," ","c","a","p","i","t","a","l"," ","o","f"," ","J","a","p","a","n","?">>,
            <<<<"T","o","k","y","o">>, <<"K","y","o","t","o">>, <<"O","s","a","k","a">>, <<"H","i","r","o","s","h","i","m","a">>>>,
            <<"T","o","k","y","o">>, <<"G","e","o","g","r","a","p","h","y">>, <<"e","a","s","y">>),
        Q(<<"W","h","i","c","h"," ","i","s"," ","t","h","e"," ","l","o","n","g","e","s","t"," ","r","i","v","e","r"," ","i","n"," ","t","h","e"," ","w","o","r","l","d","?">>,
            <<<<"N","i","l","e">>, <<"A","m","a","z","o","n">>, <<"M","i","s","s","i","s","s","i","p","p","i">>, <<"Y","a","n","g","t","z","e">>>>,
            <<"N","i","l","e">>, <<"G","e","o","g","r","a","p","h","y">>, <<"e","a","s","y">>),
        Q(<<"W","h","i","c","h"," ","c","o","u","n","t","r","y"," ","h","a","s"," ","t","h","e"," ","l","a","r","g","e","s","t"," ","p","o","p","u","l","a","t","i","o","n"," ","i","n"," ","t","h","e"," ","w","o","r","l","d","?">>,
            <<<<"C","h","i","n","a">>, <<"I","n","d","i","a">>, <<"U","n","i","t","e","d"," ","S","t","a","t","e","s">>, <<"R","u","s","s","i","a">>>>,
            <<"C","h","i","n","a">>, <<"G","e","o","g","r","a","p","h","y">>, <<"e","a","s","y">>),
        Q(<<"O","n"," ","w","h","i","c","h"," ","c","o","n","t","i","n","e","n","t"," ","i","s"," ","t","h","e"," ","S","a","h","a","r","a"," ","D","e","s","e","r","t"," ","l","o","c","a","t","e","d","?">>,
            <<<<"A","f","r","i","c","a">>, <<"A","s","i","a">>, <<"A","u","s","t","r","a","l","i","a">>, <<"S","o","u","t","h"," ","A","m","e","r","i","c","a">>>>,
            <<"A","f","r","i","c","a">>, <<"G","e","o","g","r","a","p","h","y">>, <<"e","a","s","y">>),
        Q(<<"W","h","a","t"," ","i","s"," ","t","h","e"," ","n","a","m","e"," ","o","f"," ","t","h","e"," ","t","a","l","l","e","s","t"," ","m","o","u","n","t","a","i","n"," ","i","n"," ","t","h","e"," ","w","o","r","l","d","?">>,
            <<<<"M","o","u","n","t"," ","E","v","e","r","e","s","t">>, <<"K","2">>, <<"M","o","u","n","t"," ","K","i","l","i","m","a","n","j","a","r","o">>, <<"M","o","u","n","t"," ","F","u","j","i">>>>,
            <<"M","o","u","n","t"," ","E","v","e","r","e","s","t">>, <<"G","e","o","g","r","a","p","h","y">>, <<"e","a","s","y">>),
        Q(<<"W","h","i","c","h"," ","c","o","u","n","t","r","y"," ","i","s"," ","h","o","m","e"," ","t","o"," ","t","h","e"," ","G","r","e","a","t"," ","B","a","r","r","i","e","r"," ","R","e","e","f","?">>,
            <<<<"A","u","s","t","r","a","l","i","a">>, <<"M","e","x","i","c","o">>, <<"T","h","a","i","l","a","n","d">>, <<"B","r","a","z","i","l">>>>,
            <<"A","u","s","t","r","a","l","i","a">>, <<"G","e","o","g","r","a","p","h","y">>, <<"e","a","s","y">>),
        Q(<<"W","h","a","t"," ","i","s"," ","t","h","e"," ","c","a","p","i","t","a","l"," ","o","f"," ","C","a","n","a","d","a","?">>,
            <<<<"O","t","t","a","w","a">>, <<"T","o","r","o","n","t","o">>, <<"V","a","n","c","o","u","v","e","r">>, <<"M","o","n","t","r","e","a","l">>>>,
            <<"O","t","t","a","w","a">>, <<"G","e","o","g","r","a","p","h","y">>, <<"e","a","s","y">>),
        Q(<<"W","h","i","c","h"," ","o","f"," ","t","h","e","s","e"," ","c","o","u","n","t","r","i","e","s"," ","i","s"," ","N","O","T"," ","i","n"," ","E","u","r","o","p","e","?">>,
            <<<<"E","g","y","p","t">>, <<"S","p","a","i","n">>, <<"I","t","a","l","y">>, <<"G","e","r","m","a","n","y">>>>,
            <<"E","g","y","p","t">>, <<"G","e","o","g","r","a","p","h","y">>, <<"e","a","s","y">>) >>
    ELSE IF category = <<"G","e","o","g","r","a","p","h","y">> /\ difficulty = <<"m","e","d","i","u","m">> THEN <<
        Q(<<"W","h","i","c","h"," ","c","o","u","n","t","r","y"," ","h","a","s"," ","t","h","e"," ","m","o","s","t"," ","p","y","r","a","m","i","d","s","?">>,
            <<<<"S","u","d","a","n">>, <<"E","g","y","p","t">>, <<"M","e","x","i","c","o">>, <<"P","e","r","u">>>>,
            <<"S","u","d","a","n">>, <<"G","e","o","g","r","a","p","h","y">>, <<"m","e","d","i","u","m">>),
        Q(<<"W","h","a","t"," ","i","s"," ","t","h","e"," ","c","a","p","i","t","a","l"," ","o","f"," ","A","u","s","t","r","a","l","i","a","?">>,
            <<<<"C","a","n","b","e","r","r","a">>, <<"S","y","d","n","e","y">>, <<"M","e","l","b","o","u","r","n","e">>, <<"P","e","r","t","h">>>>,
            <<"C","a","n","b","e","r","r","a">>, <<"G","e","o","g","r","a","p","h","y">>, <<"m","e","d","i","u","m">>),
        Q(<<"W","h","i","c","h"," ","o","f"," ","t","h","e","s","e"," ","c","o","u","n","t","r","i","e","s"," ","i","s"," ","l","a","n","d","l","o","c","k","e","d","?">>,
            <<<<"B","o","l","i","v","i","a">>, <<"P","e","r","u">>, <<"E","c","u","a","d","o","r">>, <<"C","h","i","l","e">>>>,
            <<"B","o","l","i","v","i","a">>, <<"G","e","o","g","r","a","p","h","y">>, <<"m","e","d","i","u","m">>),
        Q(<<"W","h","i","c","h"," ","A","f","r","i","c","a","n"," ","c","o","u","n","t","r","y"," ","w","a","s"," ","f","o","r","m","e","r","l","y"," ","k","n","o","w","n"," ","a","s"," ","A","b","y","s","s","i","n","i","a","?">>,
            <<<<"E","t","h","i","o","p","i","a">>, <<"N","i","g","e","r","i","a">>, <<"K","e","n","y","a">>, <<"M","o","r","o","c","c","o">>>>,
            <<"E","t","h","i","o","p","i","a">>, <<"G","e","o","g","r","a","p","h","y">>, <<"m","e","d","i","u","m">>),
        Q(<<"T","h","e"," ","S","t","r","a","i","t"," ","o","f"," ","G","i","b","r","a","l","t","a","r"," ","c","o","n","n","e","c","t","s"," ","t","h","e"," ","A","t","l","a","n","t","i","c"," ","O","c","e","a","n"," ","t","o"," ","w","h","i","c","h"," ","s","e","a","?">>,
            <<<<"M","e","d","i","t","e","r","r","a","n","e","a","n"," ","S","e","a">>, <<"R","e","d"," ","S","e","a">>, <<"B","l","a","c","k"," ","S","e","a">>, <<"B","a","l","t","i","c"," ","S","e","a">>>>,
            <<"M","e","d","i","t","e","r","r","a","n","e","a","n"," ","S","e","a">>, <<"G","e","o","g","r","a","p","h","y">>, <<"m","e","d","i","u","m">>),
        Q(<<"W","h","a","t"," ","i","s"," ","t","h","e"," ","l","a","r","g","e","s","t"," ","d","e","s","e","r","t"," ","i","n"," ","t","h","e"," ","w","o","r","l","d","?">>,
            <<<<"A","n","t","a","r","c","t","i","c"," ","D","e","s","e","r","t">>, <<"S","a","h","a","r","a"," ","D","e","s","e","r","t">>, <<"A","r","a","b","i","a","n"," ","D","e","s","e","r","t">>, <<"G","o","b","i"," ","D","e","s","e","r","t">>>>,
            <<"A","n","t","a","r","c","t","i","c"," ","D","e","s","e","r","t">>, <<"G","e","o","g","r","a","p","h","y">>, <<"m","e","d","i","u","m">>),
        Q(<<"W","h","i","c","h"," ","c","o","u","n","t","r","y"," ","h","a","s"," ","t","h","e"," ","m","o","s","t"," ","n","a","t","u","r","a","l"," ","l","a","k","e","s","?">>,
            <<<<"C","a","n","a","d","a">>, <<"U","n","i","t","e","d"," ","S","t","a","t","e","s">>, <<"R","u","s","s","i","a">>, <<"F","i","n","l","a","n","d">>>>,
            <<"C","a","n","a","d","a">>, <<"G","e","o","g","r","a","p","h","y">>, <<"m","e","d","i","u","m">>),
        Q(<<"W","h","a","t"," ","i","s"," ","t","h","e"," ","c","a","p","i","t","a","l"," ","o","f"," ","N","e","w"," ","Z","e","a","l","a","n","d","?">>,
            <<<<"W","e","l","l","i","n","g","t","o","n">>, <<"A","u","c","k","l","a","n","d">>, <<"C","h","r","i","s","t","c","h","u","r","c","h">>, <<"Q","u","e","e","n","s","t","o","w","n">>>>,
            <<"W","e","l","l","i","n","g","t","o","n">>, <<"G","e","o","g","r","a","p","h","y">>, <<"m","e","d","i","u","m">>),
        Q(<<"W","h","i","c","h"," ","m","o","u","n","t","a","i","n"," ","r","a","n","g","e"," ","s","e","p","a","r","a","t","e","s"," ","E","u","r","o","p","e"," ","f","r","o","m"," ","A","s","i","a","?">>,
            <<<<"U","r","a","l"," ","M","o","u","n","t","a","i","n","s">>, <<"A","l","p","s">>, <<"C","a","u","c","a","s","u","s"," ","M","o","u","n","t","a","i","n","s">>, <<"C","a","r","p","a","t","h","i","a","n"," ","M","o","u","n","t","a","i","n","s">>>>,
            <<"U","r","a","l"," ","M","o","u","n","t","a","i","n","s">>, <<"G","e","o","g","r","a","p","h","y">>, <<"m","e","d","i","u","m">>),
        Q(<<"W","h","i","c","h"," ","r","i","v","e","r"," ","f","l","o","w","s"," ","t","h","r","o","u","g","h"," ","t","h","e"," ","G","r","a","n","d"," ","C","a","n","y","o","n","?">>,
            <<<<"C","o","l","o","r","a","d","o"," ","R","i","v","e","r">>, <<"M","i","s","s","o","u","r","i"," ","R","i","v","e","r">>, <<"R","i","o"," ","G","r","a","n","d","e">>, <<"M","i","s","s","i","s","s","i","p","p","i"," ","R","i","v","e","r">>>>,
            <<"C","o","l","o","r","a","d","o"," ","R","i","v","e","r">>, <<"G","e","o","g","r","a","p","h","y">>, <<"m","e","d","i","u","m">>) >>
    ELSE IF category = <<"G","e","o","g","r","a","p","h","y">> /\ difficulty = <<"h","a","r","d">> THEN <<
        Q(<<"W","h","i","c","h"," ","S","o","u","t","h"," ","A","m","e","r","i","c","a","n"," ","c","o","u","n","t","r","y"," ","h","a","s"," ","t","h","e"," ","l","a","r","g","e","s","t"," ","l","a","n","d"," ","a","r","e","a","?">>,
            <<<<"B","r","a","z","i","l">>, <<"A","r","g","e","n","t","i","n","a">>, <<"P","e","r","u">>, <<"C","o","l","o","m","b","i","a">>>>,
            <<"B","r","a","z","i","l">>, <<"G","e","o","g","r","a","p","h","y">>, <<"h","a","r","d">>),
        Q(<<"W","h","a","t"," ","i","s"," ","t","h","e"," ","w","o","r","l","d","'","s"," ","o","l","d","e","s","t"," ","c","o","n","t","i","n","u","o","u","s","l","y"," ","i","n","h","a","b","i","t","e","d"," ","c","i","t","y","?">>,
            <<<<"D","a","m","a","s","c","u","s">>, <<"J","e","r","u","s","a","l","e","m">>, <<"A","t","h","e","n","s">>, <<"R","o","m","e">>>>,
            <<"D","a","m","a","s","c","u","s">>, <<"G","e","o","g","r","a","p","h","y">>, <<"h","a","r","d">>),
        Q(<<"W","h","i","c","h"," ","c","o","u","n","t","r","y"," ","i","s"," ","t","h","e"," ","w","o","r","l","d","'","s"," ","l","a","r","g","e","s","t"," ","p","r","o","d","u","c","e","r"," ","o","f"," ","c","o","f","f","e","e","?">>,
            <<<<"B","r","a","z","i","l">>, <<"C","o","l","o","m","b","i","a">>, <<"V","i","e","t","n","a","m">>, <<"E","t","h","i","o","p","i","a">>>>,
            <<"B","r","a","z","i","l">>, <<"G","e","o","g","r","a","p","h","y">>, <<"h","a","r","d">>),
        Q(<<"I","n"," ","w","h","i","c","h"," ","c","o","u","n","t","r","y"," ","w","o","u","l","d"," ","y","o","u"," ","f","i","n","d"," ","t","h","e"," ","c","i","t","y"," ","o","f"," ","T","i","m","b","u","k","t","u","?">>,
            <<<<"M","a","l","i">>, <<"N","i","g","e","r">>, <<"C","h","a","d">>, <<"S","u","d","a","n">>>>,
            <<"M","a","l","i">>, <<"G","e","o","g","r","a","p","h","y">>, <<"h","a","r","d">>),
        Q(<<"W","h","i","c","h"," ","i","s"," ","t","h","e"," ","o","n","l","y"," ","c","o","u","n","t","r","y"," ","t","o"," ","b","o","r","d","e","r"," ","b","o","t","h"," ","t","h","e"," ","A","t","l","a","n","t","i","c"," ","a","n","d"," ","I","n","d","i","a","n"," ","O","c","e","a","n","s","?">>,
            <<<<"S","o","u","t","h"," ","A","f","r","i","c","a">>, <<"A","u","s","t","r","a","l","i","a">>, <<"B","r","a","z","i","l">>, <<"I","n","d","i","a">>>>,
            <<"S","o","u","t","h"," ","A","f","r","i","c","a">>, <<"G","e","o","g","r","a","p","h","y">>, <<"h","a","r","d">>),
        Q(<<"W","h","a","t"," ","i","s"," ","t","h","e"," ","c","a","p","i","t","a","l"," ","o","f"," ","M","o","n","g","o","l","i","a","?">>,
            <<<<"U","l","a","a","n","b","a","a","t","a","r">>, <<"A","s","t","a","n","a">>, <<"B","i","s","h","k","e","k">>, <<"T","a","s","h","k","e","n","t">>>>,
            <<"U","l","a","a","n","b","a","a","t","a","r">>, <<"G","e","o","g","r","a","p","h","y">>, <<"h","a","r","d">>),
        Q(<<"W","h","i","c","h"," ","c","o","u","n","t","r","y"," ","h","a","s"," ","t","h","e"," ","m","o","s","t"," ","t","i","m","e"," ","z","o","n","e","s","?">>,
            <<<<"F","r","a","n","c","e">>, <<"R","u","s","s","i","a">>, <<"U","n","i","t","e","d"," ","S","t","a","t","e","s">>, <<"A","u","s","t","r","a","l","i","a">>>>,
            <<"F","r","a","n","c","e">>, <<"G","e","o","g","r","a","p","h","y">>, <<"h","a","r","d">>),
        Q(<<"W","h","a","t"," ","i","s"," ","t","h","e"," ","l","o","w","e","s","t"," ","p","o","i","n","t"," ","o","n"," ","E","a","r","t","h","'","s"," ","c","o","n","t","i","n","e","n","t","a","l"," ","c","r","u","s","t","?">>,
            <<<<"D","e","a","d"," ","S","e","a">>, <<"C","a","s","p","i","a","n"," ","S","e","a">>, <<"D","e","a","t","h"," ","V","a","l","l","e","y">>, <<"L","a","k","e"," ","E","y","r","e">>>>,
            <<"D","e","a","d"," ","S","e","a">>, <<"G","e","o","g","r","a","p","h","y">>, <<"h","a","r","d">>),
        Q(<<"W","h","i","c","h"," ","c","o","u","n","t","r","y"," ","h","a","s"," ","t","h","e"," ","l","a","r","g","e","s","t"," ","n","u","m","b","e","r"," ","o","f"," ","a","c","t","i","v","e"," ","v","o","l","c","a","n","o","e","s","?">>,
            <<<<"I","n","d","o","n","e","s","i","a">>, <<"J","a","p","a","n">>, <<"P","h","i","l","i","p","p","i","n","e","s">>, <<"U","n","i","t","e","d"," ","S","t","a","t","e","s">>>>,
            <<"I","n","d","o","n","e","s","i","a">>, <<"G","e","o","g","r","a","p","h","y">>, <<"h","a","r","d">>),
        Q(<<"W","h","i","c","h"," ","A","f","r","i","c","a","n"," ","c","o","u","n","t","r","y"," ","w","a","s"," ","n","e","v","e","r"," ","c","o","l","o","n","i","z","e","d"," ","b","y"," ","E","u","r","o","p","e","a","n","s","?">>,
            <<<<"E","t","h","i","o","p","i","a">>, <<"S","o","u","t","h"," ","A","f","r","i","c","a">>, <<"K","e","n","y","a">>, <<"N","i","g","e","r","i","a">>>>,
            <<"E","t","h","i","o","p","i","a">>, <<"G","e","o","g","r","a","p","h","y">>, <<"h","a","r","d">>) >>
    ELSE IF category = <<"L","i","t","e","r","a","t","u","r","e">> /\ difficulty = <<"e","a","s","y">> THEN <<
        Q(<<"W","h","o"," ","w","r","o","t","e"," ","'","R","o","m","e","o"," ","a","n","d"," ","J","u","l","i","e","t","'","?">>,
            <<<<"W","i","l","l","i","a","m"," ","S","h","a","k","e","s","p","e","a","r","e">>, <<"C","h","a","r","l","e","s"," ","D","i","c","k","e","n","s">>, <<"J","a","n","e"," ","A","u","s","t","e","n">>, <<"M","a","r","k"," ","T","w","a","i","n">>>>,
            <<"W","i","l","l","i","a","m"," ","S","h","a","k","e","s","p","e","a","r","e">>, <<"L","i","t","e","r","a","t","u","r","e">>, <<"e","a","s","y">>),
        Q(<<"W","h","o"," ","w","r","o","t","e"," ","'","H","a","r","r","y"," ","P","o","t","t","e","r","'","?">>,
            <<<<"J",".","K","."," ","R","o","w","l","i","n","g">>, <<"S","t","e","p","h","e","n"," ","K","i","n","g">>, <<"G","e","o","r","g","e"," ","R",".","R","."," ","M","a","r","t","i","n">>, <<"T","o","l","k","i","e","n">>>>,
            <<"J",".","K","."," ","R","o","w","l","i","n","g">>, <<"L","i","t","e","r","a","t","u","r","e">>, <<"e","a","s","y">>),
        Q(<<"W","h","o"," ","i","s"," ","t","h","e"," ","a","u","t","h","o","r"," ","o","f"," ","'","P","r","i","d","e"," ","a","n","d"," ","P","r","e","j","u","d","i","c","e","'","?">>,
            <<<<"J","a","n","e"," ","A","u","s","t","e","n">>, <<"C","h","a","r","l","o","t","t","e"," ","B","r","o","n","t","ë">>, <<"E","m","i","l","y"," ","B","r","o","n","t","ë">>, <<"V","i","r","g","i","n","i","a"," ","W","o","o","l","f">>>>,
            <<"J","a","n","e"," ","A","u","s","t","e","n">>, <<"L","i","t","e","r","a","t","u","r","e">>, <<"e","a","s","y">>),
        Q(<<"W","h","a","t"," ","i","s"," ","t","h","e"," ","n","a","m","e"," ","o","f"," ","t","h","e"," ","m","a","i","n"," ","c","h","a","r","a","c","t","e","r"," ","i","n"," ","'","T","h","e"," ","G","r","e","a","t"," ","G","a","t","s","b","y","'","?">>,
            <<<<"J","a","y"," ","G","a","t","s","b","y">>, <<"N","i","c","k"," ","C","a","r","r","a","w","a","y">>, <<"T","o","m"," ","B","u","c","h","a","n","a","n">>, <<"D","a","i","s","y"," ","B","u","c","h","a","n","a","n">>>>,
            <<"J","a","y"," ","G","a","t","s","b","y">>, <<"L","i","t","e","r","a","t","u","r","e">>, <<"e","a","s","y">>),
        Q(<<"W","h","o"," ","w","r","o","t","e"," ","'","T","h","e"," ","A","d","v","e","n","t","u","r","e","s"," ","o","f"," ","T","o","m"," ","S","a","w","y","e","r","'","?">>,
            <<<<"M","a","r","k"," ","T","w","a","i","n">>, <<"C","h","a","r","l","e","s"," ","D","i","c","k","e","n","s">>, <<"E","r","n","e","s","t"," ","H","e","m","i","n","g","w","a","y">>, <<"F","."," ","S","c","o","t","t"," ","F","i","t","z","g","e","r","a","l","d">>>>,
            <<"M","a","r","k"," ","T","w","a","i","n">>, <<"L","i","t","e","r","a","t","u","r","e">>, <<"e","a","s","y">>),
        Q(<<"W","h","i","c","h"," ","n","o","v","e","l"," ","b","e","g","i","n","s"," ","w","i","t","h"," ","t","h","e"," ","l","i","n","e"," ","'","I","t"," ","w","a","s"," ","t","h","e"," ","b","e","s","t"," ","o","f"," ","t","i","m","e","s",","," ","i","t"," ","w","a","s"," ","t","h","e"," ","w","o","r","s","t"," ","o","f"," ","t","i","m","e","s","'","?">>,
            <<<<"A"," ","T","a","l","e"," ","o","f"," ","T","w","o"," ","C","i","t","i","e","s">>, <<"G","r","e","a","t"," ","E","x","p","e","c","t","a","t","i","o","n","s">>, <<"O","l","i","v","e","r"," ","T","w","i","s","t">>, <<"D","a","v","i","d"," ","C","o","p","p","e","r","f","i","e","l","d">>>>,
            <<"A"," ","T","a","l","e"," ","o","f"," ","T","w","o"," ","C","i","t","i","e","s">>, <<"L","i","t","e","r","a","t","u","r","e">>, <<"e","a","s","y">>),
        Q(<<"W","h","o"," ","w","r","o","t","e"," ","'","T","o"," ","K","i","l","l"," ","a"," ","M","o","c","k","i","n","g","b","i","r","d","'","?">>,
            <<<<"H","a","r","p","e","r"," ","L","e","e">>, <<"J",".","D","."," ","S","a","l","i","n","g","e","r">>, <<"J","o","h","n"," ","S","t","e","i","n","b","e","c","k">>, <<"F","."," ","S","c","o","t","t"," ","F","i","t","z","g","e","r","a","l","d">>>>,
            <<"H","a","r","p","e","r"," ","L","e","e">>, <<"L","i","t","e","r","a","t","u","r","e">>, <<"e","a","s","y">>),
        Q(<<"W","h","a","t"," ","i","s"," ","t","h","e"," ","n","a","m","e"," ","o","f"," ","t","h","e"," ","h","o","b","b","i","t"," ","i","n"," ","'","T","h","e"," ","L","o","r","d"," ","o","f"," ","t","h","e"," ","R","i","n","g","s","'","?">>,
            <<<<"F","r","o","d","o"," ","B","a","g","g","i","n","s">>, <<"B","i","l","b","o"," ","B","a","g","g","i","n","s">>, <<"S","a","m","w","i","s","e"," ","G","a","m","g","e","e">>, <<"G","o","l","l","u","m">>>>,
            <<"F","r","o","d","o"," ","B","a","g","g","i","n","s">>, <<"L","i","t","e","r","a","t","u","r","e">>, <<"e","a","s","y">>),
        Q(<<"I","n"," ","w","h","i","c","h"," ","c","e","n","t","u","r","y"," ","d","i","d"," ","W","i","l","l","i","a","m"," ","S","h","a","k","e","s","p","e","a","r","e"," ","l","i","v","e","?">>,
            <<<<"1","6","t","h","-","1","7","t","h"," ","c","e","n","t","u","r","y">>, <<"1","5","t","h","-","1","6","t","h"," ","c","e","n","t","u","r","y">>, <<"1","7","t","h","-","1","8","t","h"," ","c","e","n","t","u","r","y">>, <<"1","4","t","h","-","1","5","t","h"," ","c","e","n","t","u","r","y">>>>,
            <<"1","6","t","h","-","1","7","t","h"," ","c","e","n","t","u","r","y">>, <<"L","i","t","e","r","a","t","u","r","e">>, <<"e","a","s","y">>),
        Q(<<"W","h","o"," ","w","r","o","t","e"," ","'","T","h","e"," ","C","a","t","c","h","e","r"," ","i","n"," ","t","h","e"," ","R","y","e","'","?">>,
            <<<<"J",".","D","."," ","S","a","l","i","n","g","e","r">>, <<"F","."," ","S","c","o","t","t"," ","F","i","t","z","g","e","r","a","l","d">>, <<"E","r","n","e","s","t"," ","H","e","m","i","n","g","w","a","y">>, <<"M","a","r","k"," ","T","w","a","i","n">>>>,
            <<"J",".","D","."," ","S","a","l","i","n","g","e","r">>, <<"L","i","t","e","r","a","t","u","r","e">>, <<"e","a","s","y">>) >>
    ELSE IF category = <<"L","i","t","e","r","a","t","u","r","e">> /\ difficulty = <<"m","e","d","i","u","m">> THEN <<
        Q(<<"W","h","o"," ","w","r","o","t","e"," ","'","O","n","e"," ","H","u","n","d","r","e","d"," ","Y","e","a","r","s"," ","o","f"," ","S","o","l","i","t","u","d","e","'","?">>,
            <<<<"G","a","b","r","i","e","l"," ","G","a","r","c","í","a"," ","M","á","r","q","u","e","z">>, <<"I","s","a","b","e","l"," ","A","l","l","e","n","d","e">>, <<"J","o","r","g","e"," ","L","u","i","s"," ","B","o","r","g","e","s">>, <<"P","a","b","l","o"," ","N","e","r","u","d","a">>>>,
            <<"G","a","b","r","i","e","l"," ","G","a","r","c","í","a"," ","M","á","r","q","u","e","z">>, <<"L","i","t","e","r","a","t","u","r","e">>, <<"m","e","d","i","u","m">>),
        Q(<<"W","h","i","c","h"," ","n","o","v","e","l"," ","f","e","a","t","u","r","e","s"," ","t","h","e"," ","c","h","a","r","a","c","t","e","r"," ","H","o","l","d","e","n"," ","C","a","u","l","f","i","e","l","d","?">>,
            <<<<"T","h","e"," ","C","a","t","c","h","e","r"," ","i","n"," ","t","h","e"," ","R","y","e">>, <<"T","h","e"," ","G","r","e","a","t"," ","G","a","t","s","b","y">>, <<"T","o"," ","K","i","l","l"," ","a"," ","M","o","c","k","i","n","g","b","i","r","d">>, <<"L","o","r","d"," ","o","f"," ","t","h","e"," ","F","l","i","e","s">>>>,
            <<"T","h","e"," ","C","a","t","c","h","e","r"," ","i","n"," ","t","h","e"," ","R","y","e">>, <<"L","i","t","e","r","a","t","u","r","e">>, <<"m","e","d","i","u","m">>),
        Q(<<"W","h","o"," ","w","r","o","t","e"," ","'","C","r","i","m","e"," ","a","n","d"," ","P","u","n","i","s","h","m","e","n","t","'","?">>,
            <<<<"F","y","o","d","o","r"," ","D","o","s","t","o","e","v","s","k","y">>, <<"L","e","o"," ","T","o","l","s","t","o","y">>, <<"A","n","t","o","n"," ","C","h","e","k","h","o","v">>, <<"N","i","k","o","l","a","i"," ","G","o","g","o","l">>>>,
            <<"F","y","o","d","o","r"," ","D","o","s","t","o","e","v","s","k","y">>, <<"L","i","t","e","r","a","t","u","r","e">>, <<"m","e","d","i","u","m">>),
        Q(<<"W","h","i","c","h"," ","S","h","a","k","e","s","p","e","a","r","e"," ","p","l","a","y"," ","f","e","a","t","u","r","e","s"," ","t","h","e"," ","c","h","a","r","a","c","t","e","r"," ","O","p","h","e","l","i","a","?">>,
            <<<<"H","a","m","l","e","t">>, <<"M","a","c","b","e","t","h">>, <<"R","o","m","e","o"," ","a","n","d"," ","J","u","l","i","e","t">>, <<"K","i","n","g"," ","L","e","a","r">>>>,
            <<"H","a","m","l","e","t">>, <<"L","i","t","e","r","a","t","u","r","e">>, <<"m","e","d","i","u","m">>),
        Q(<<"W","h","o"," ","w","r","o","t","e"," ","'","T","h","e"," ","O","l","d"," ","M","a","n"," ","a","n","d"," ","t","h","e"," ","S","e","a","'","?">>,
            <<<<"E","r","n","e","s","t"," ","H","e","m","i","n","g","w","a","y">>, <<"F","."," ","S","c","o","t","t"," ","F","i","t","z","g","e","r","a","l","d">>, <<"J","o","h","n"," ","S","t","e","i","n","b","e","c","k">>, <<"W","i","l","l","i","a","m"," ","F","a","u","l","k","n","e","r">>>>,
            <<"E","r","n","e","s","t"," ","H","e","m","i","n","g","w","a","y">>, <<"L","i","t","e","r","a","t","u","r","e">>, <<"m","e","d","i","u","m">>),
        Q(<<"W","h","i","c","h"," ","p","o","e","t"," ","w","r","o","t","e"," ","'","T","h","e"," ","R","o","a","d"," ","N","o","t"," ","T","a","k","e","n","'","?">>,
            <<<<"R","o","b","e","r","t"," ","F","r","o","s","t">>, <<"W","a","l","t"," ","W","h","i","t","m","a","n">>, <<"E","m","i","l","y"," ","D","i","c","k","i","n","s","o","n">>, <<"T",".","S","."," ","E","l","i","o","t">>>>,
            <<"R","o","b","e","r","t"," ","F","r","o","s","t">>, <<"L","i","t","e","r","a","t","u","r","e">>, <<"m","e","d","i","u","m">>),
        Q(<<"W","h","a","t"," ","w","a","s"," ","C","h","a","r","l","e","s"," ","D","i","c","k","e","n","s","'"," ","f","i","n","a","l"," ","c","o","m","p","l","e","t","e","d"," ","n","o","v","e","l","?">>,
            <<<<"O","u","r"," ","M","u","t","u","a","l"," ","F","r","i","e","n","d">>, <<"G","r","e","a","t"," ","E","x","p","e","c","t","a","t","i","o","n","s">>, <<"A"," ","T","a","l","e"," ","o","f"," ","T","w","o"," ","C","i","t","i","e","s">>, <<"D","a","v","i","d"," ","C","o","p","p","e","r","f","i","e","l","d">>>>,
            <<"O","u","r"," ","M","u","t","u","a","l"," ","F","r","i","e","n","d">>, <<"L","i","t","e","r","a","t","u","r","e">>, <<"m","e","d","i","u","m">>),
        Q(<<"W","h","i","c","h"," ","n","o","v","e","l"," ","b","e","g","i","n","s"," ","w","i","t","h"," ","t","h","e"," ","l","i","n","e"," ","'","C","a","l","l"," ","m","e"," ","I","s","h","m","a","e","l","'","?">>,
            <<<<"M","o","b","y","-","D","i","c","k">>, <<"T","h","e"," ","G","r","e","a","t"," ","G","a","t","s","b","y">>, <<"T","h","e"," ","O","l","d"," ","M","a","n"," ","a","n","d"," ","t","h","e"," ","S","e","a">>, <<"T","o"," ","K","i","l","l"," ","a"," ","M","o","c","k","i","n","g","b","i","r","d">>>>,
            <<"M","o","b","y","-","D","i","c","k">>, <<"L","i","t","e","r","a","t","u","r","e">>, <<"m","e","d","i","u","m">>),
        Q(<<"W","h","o"," ","w","r","o","t","e"," ","t","h","e"," ","p","o","e","t","r","y"," ","c","o","l","l","e","c","t","i","o","n"," ","'","L","e","a","v","e","s"," ","o","f"," ","G","r","a","s","s","'","?">>,
            <<<<"W","a","l","t"," ","W","h","i","t","m","a","n">>, <<"E","m","i","l","y"," ","D","i","c","k","i","n","s","o","n">>, <<"R","o","b","e","r","t"," ","F","r","o","s","t">>, <<"T",".","S","."," ","E","l","i","o","t">>>>,
            <<"W","a","l","t"," ","W","h","i","t","m","a","n">>, <<"L","i","t","e","r","a","t","u","r","e">>, <<"m","e","d","i","u","m">>),
        Q(<<"W","h","i","c","h"," ","n","o","v","e","l"," ","f","e","a","t","u","r","e","s"," ","t","h","e"," ","c","h","a","r","a","c","t","e","r"," ","J","a","y"," ","G","a","t","s","b","y","?">>,
            <<<<"T","h","e"," ","G","r","e","a","t"," ","G","a","t","s","b","y">>, <<"T","h","e"," ","C","a","t","c","h","e","r"," ","i","n"," ","t","h","e"," ","R","y","e">>, <<"T","o"," ","K","i","l","l"," ","a"," ","M","o","c","k","i","n","g","b","i","r","d">>, <<"M","o","b","y","-","D","i","c","k">>>>,
            <<"T","h","e"," ","G","r","e","a","t"," ","G","a","t","s","b","y">>, <<"L","i","t","e","r","a","t","u","r","e">>, <<"m","e","d","i","u","m">>) >>
    ELSE IF category = <<"L","i","t","e","r","a","t","u","r","e">> /\ difficulty = <<"h","a","r","d">> THEN <<
        Q(<<"W","h","o"," ","w","r","o","t","e"," ","'","U","l","y","s","s","e","s","'","?">>,
            <<<<"J","a","m","e","s"," ","J","o","y","c","e">>, <<"V","i","r","g","i","n","i","a"," ","W","o","o","l","f">>, <<"M","a","r","c","e","l"," ","P","r","o","u","s","t">>, <<"D",".","H","."," ","L","a","w","r","e","n","c","e">>>>,
            <<"J","a","m","e","s"," ","J","o","y","c","e">>, <<"L","i","t","e","r","a","t","u","r","e">>, <<"h","a","r","d">>),
        Q(<<"W","h","i","c","h"," ","a","u","t","h","o","r"," ","c","r","e","a","t","e","d"," ","t","h","e"," ","c","h","a","r","a","c","t","e","r"," ","I","n","s","p","e","c","t","o","r"," ","M","o","r","s","e","?">>,
            <<<<"C","o","l","i","n"," ","D","e","x","t","e","r">>, <<"A","g","a","t","h","a"," ","C","h","r","i","s","t","i","e">>, <<"A","r","t","h","u","r"," ","C","o","n","a","n"," ","D","o","y","l","e">>, <<"P",".","D","."," ","J","a","m","e","s">>>>,
            <<"C","o","l","i","n"," ","D","e","x","t","e","r">>, <<"L","i","t","e","r","a","t","u","r","e">>, <<"h","a","r","d">>),
        Q(<<"W","h","i","c","h"," ","n","o","v","e","l"," ","b","y"," ","A","l","b","e","r","t"," ","C","a","m","u","s"," ","t","e","l","l","s"," ","t","h","e"," ","s","t","o","r","y"," ","o","f"," ","a"," ","m","a","n"," ","n","a","m","e","d"," ","M","e","u","r","s","a","u","l","t"," ","w","h","o"," ","k","i","l","l","s"," ","a","n"," ","A","r","a","b","?">>,
            <<<<"T","h","e"," ","S","t","r","a","n","g","e","r">>, <<"T","h","e"," ","P","l","a","g","u","e">>, <<"T","h","e"," ","F","a","l","l">>, <<"T","h","e"," ","M","y","t","h"," ","o","f"," ","S","i","s","y","p","h","u","s">>>>,
            <<"T","h","e"," ","S","t","r","a","n","g","e","r">>, <<"L","i","t","e","r","a","t","u","r","e">>, <<"h","a","r","d">>),
        Q(<<"W","h","o"," ","w","r","o","t","e"," ","'","T","h","e"," ","B","r","o","t","h","e","r","s"," ","K","a","r","a","m","a","z","o","v","'","?">>,
            <<<<"F","y","o","d","o","r"," ","D","o","s","t","o","e","v","s","k","y">>, <<"L","e","o"," ","T","o","l","s","t","o","y">>, <<"A","n","t","o","n"," ","C","h","e","k","h","o","v">>, <<"I","v","a","n"," ","T","u","r","g","e","n","e","v">>>>,
            <<"F","y","o","d","o","r"," ","D","o","s","t","o","e","v","s","k","y">>, <<"L","i","t","e","r","a","t","u","r","e">>, <<"h","a","r","d">>),
        Q(<<"W","h","i","c","h"," ","a","u","t","h","o","r"," ","w","o","n"," ","t","h","e"," ","N","o","b","e","l"," ","P","r","i","z","e"," ","i","n"," ","L","i","t","e","r","a","t","u","r","e"," ","i","n"," ","1","9","5","4","?">>,
            <<<<"E","r","n","e","s","t"," ","H","e","m","i","n","g","w","a","y">>, <<"W","i","l","l","i","a","m"," ","F","a","u","l","k","n","e","r">>, <<"J","o","h","n"," ","S","t","e","i","n","b","e","c","k">>, <<"T",".","S","."," ","E","l","i","o","t">>>>,
            <<"E","r","n","e","s","t"," ","H","e","m","i","n","g","w","a","y">>, <<"L","i","t","e","r","a","t","u","r","e">>, <<"h","a","r","d">>),
        Q(<<"W","h","i","c","h"," ","o","f"," ","t","h","e","s","e"," ","w","o","r","k","s"," ","i","s"," ","N","O","T"," ","b","y"," ","S","h","a","k","e","s","p","e","a","r","e","?">>,
            <<<<"D","o","c","t","o","r"," ","F","a","u","s","t","u","s">>, <<"T","h","e"," ","T","e","m","p","e","s","t">>, <<"K","i","n","g"," ","L","e","a","r">>, <<"T","w","e","l","f","t","h"," ","N","i","g","h","t">>>>,
            <<"D","o","c","t","o","r"," ","F","a","u","s","t","u","s">>, <<"L","i","t","e","r","a","t","u","r","e">>, <<"h","a","r","d">>),
        Q(<<"W","h","o"," ","w","r","o","t","e"," ","'","T","h","e"," ","S","o","u","n","d"," ","a","n","d"," ","t","h","e"," ","F","u","r","y","'","?">>,
            <<<<"W","i","l","l","i","a","m"," ","F","a","u","l","k","n","e","r">>, <<"E","r","n","e","s","t"," ","H","e","m","i","n","g","w","a","y">>, <<"F","."," ","S","c","o","t","t"," ","F","i","t","z","g","e","r","a","l","d">>, <<"J","o","h","n"," ","S","t","e","i","n","b","e","c","k">>>>,
            <<"W","i","l","l","i","a","m"," ","F","a","u","l","k","n","e","r">>, <<"L","i","t","e","r","a","t","u","r","e">>, <<"h","a","r","d">>),
        Q(<<"W","h","a","t"," ","w","a","s"," ","t","h","e"," ","o","r","i","g","i","n","a","l"," ","t","i","t","l","e"," ","o","f"," ","J","a","n","e"," ","A","u","s","t","e","n","'","s"," ","'","P","r","i","d","e"," ","a","n","d"," ","P","r","e","j","u","d","i","c","e","'","?">>,
            <<<<"F","i","r","s","t"," ","I","m","p","r","e","s","s","i","o","n","s">>, <<"S","o","c","i","a","l"," ","S","t","a","n","d","i","n","g","s">>, <<"E","l","i","z","a","b","e","t","h"," ","a","n","d"," ","D","a","r","c","y">>, <<"A"," ","L","a","d","y","'","s"," ","R","e","p","u","t","a","t","i","o","n">>>>,
            <<"F","i","r","s","t"," ","I","m","p","r","e","s","s","i","o","n","s">>, <<"L","i","t","e","r","a","t","u","r","e">>, <<"h","a","r","d">>),
        Q(<<"W","h","i","c","h"," ","R","u","s","s","i","a","n"," ","a","u","t","h","o","r"," ","w","r","o","t","e"," ","'","W","a","r"," ","a","n","d"," ","P","e","a","c","e","'","?">>,
            <<<<"L","e","o"," ","T","o","l","s","t","o","y">>, <<"F","y","o","d","o","r"," ","D","o","s","t","o","e","v","s","k","y">>, <<"A","n","t","o","n"," ","C","h","e","k","h","o","v">>, <<"N","i","k","o","l","a","i"," ","G","o","g","o","l">>>>,
            <<"L","e","o"," ","T","o","l","s","t","o","y">>, <<"L","i","t","e","r","a","t","u","r","e">>, <<"h","a","r","d">>),
        Q(<<"W","h","i","c","h"," ","l","i","t","e","r","a","r","y"," ","m","o","v","e","m","e","n","t"," ","w","a","s"," ","J","a","m","e","s"," ","J","o","y","c","e"," ","a","s","s","o","c","i","a","t","e","d"," ","w","i","t","h","?">>,
            <<<<"M","o","d","e","r","n","i","s","m">>, <<"R","o","m","a","n","t","i","c","i","s","m">>, <<"N","a","t","u","r","a","l","i","s","m">>, <<"R","e","a","l","i","s","m">>>>,
            <<"M","o","d","e","r","n","i","s","m">>, <<"L","i","t","e","r","a","t","u","r","e">>, <<"h","a","r","d">>) >>
    ELSE IF category = <<"M","o","v","i","e","s">> /\ difficulty = <<"e","a","s","y">> THEN <<
        Q(<<"W","h","i","c","h"," ","m","o","v","i","e"," ","w","o","n"," ","t","h","e"," ","O","s","c","a","r"," ","f","o","r"," ","B","e","s","t"," ","P","i","c","t","u","r","e"," ","i","n"," ","2","0","2","0","?">>,
            <<<<"P","a","r","a","s","i","t","e">>, <<"1","9","1","7">>, <<"J","o","k","e","r">>, <<"O","n","c","e"," ","U","p","o","n"," ","a"," ","T","i","m","e"," ","i","n"," ","H","o","l","l","y","w","o","o","d">>>>,
            <<"P","a","r","a","s","i","t","e">>, <<"M","o","v","i","e","s">>, <<"e","a","s","y">>),
        Q(<<"W","h","o"," ","d","i","r","e","c","t","e","d"," ","t","h","e"," ","m","o","v","i","e"," ","'","T","i","t","a","n","i","c","'","?">>,
            <<<<"J","a","m","e","s"," ","C","a","m","e","r","o","n">>, <<"S","t","e","v","e","n"," ","S","p","i","e","l","b","e","r","g">>, <<"C","h","r","i","s","t","o","p","h","e","r"," ","N","o","l","a","n">>, <<"M","a","r","t","i","n"," ","S","c","o","r","s","e","s","e">>>>,
            <<"J","a","m","e","s"," ","C","a","m","e","r","o","n">>, <<"M","o","v","i","e","s">>, <<"e","a","s","y">>),
        Q(<<"W","h","i","c","h"," ","a","c","t","o","r"," ","p","l","a","y","e","d"," ","I","r","o","n"," ","M","a","n"," ","i","n"," ","t","h","e"," ","M","a","r","v","e","l"," ","C","i","n","e","m","a","t","i","c"," ","U","n","i","v","e","r","s","e","?">>,
            <<<<"R","o","b","e","r","t"," ","D","o","w","n","e","y"," ","J","r",".">>, <<"C","h","r","i","s"," ","E","v","a","n","s">>, <<"C","h","r","i","s"," ","H","e","m","s","w","o","r","t","h">>, <<"M","a","r","k"," ","R","u","f","f","a","l","o">>>>,
            <<"R","o","b","e","r","t"," ","D","o","w","n","e","y"," ","J","r",".">>, <<"M","o","v","i","e","s">>, <<"e","a","s","y">>),
        Q(<<"W","h","i","c","h"," ","a","n","i","m","a","t","e","d"," ","m","o","v","i","e"," ","f","e","a","t","u","r","e","s"," ","a"," ","c","h","a","r","a","c","t","e","r"," ","n","a","m","e","d"," ","S","i","m","b","a","?">>,
            <<<<"T","h","e"," ","L","i","o","n"," ","K","i","n","g">>, <<"F","i","n","d","i","n","g"," ","N","e","m","o">>, <<"T","o","y"," ","S","t","o","r","y">>, <<"S","h","r","e","k">>>>,
            <<"T","h","e"," ","L","i","o","n"," ","K","i","n","g">>, <<"M","o","v","i","e","s">>, <<"e","a","s","y">>),
        Q(<<"W","h","o"," ","p","l","a","y","e","d"," ","J","a","c","k"," ","i","n"," ","t","h","e"," ","m","o","v","i","e"," ","'","T","i","t","a","n","i","c","'","?">>,
            <<<<"L","e","o","n","a","r","d","o"," ","D","i","C","a","p","r","i","o">>, <<"B","r","a","d"," ","P","i","t","t">>, <<"T","o","m"," ","C","r","u","i","s","e">>, <<"J","o","h","n","n","y"," ","D","e","p","p">>>>,
            <<"L","e","o","n","a","r","d","o"," ","D","i","C","a","p","r","i","o">>, <<"M","o","v","i","e","s">>, <<"e","a","s","y">>),
        Q(<<"W","h","i","c","h"," ","o","f"," ","t","h","e","s","e"," ","m","o","v","i","e","s"," ","i","s"," ","N","O","T"," ","d","i","r","e","c","t","e","d"," ","b","y"," ","C","h","r","i","s","t","o","p","h","e","r"," ","N","o","l","a","n","?">>,
            <<<<"A","v","a","t","a","r">>, <<"I","n","c","e","p","t","i","o","n">>, <<"I","n","t","e","r","s","t","e","l","l","a","r">>, <<"T","h","e"," ","D","a","r","k"," ","K","n","i","g","h","t">>>>,
            <<"A","v","a","t","a","r">>, <<"M","o","v","i","e","s">>, <<"e","a","s","y">>),
        Q(<<"W","h","a","t"," ","w","a","s"," ","t","h","e"," ","f","i","r","s","t"," ","m","o","v","i","e"," ","i","n"," ","t","h","e"," ","'","H","a","r","r","y"," ","P","o","t","t","e","r","'"," ","s","e","r","i","e","s","?">>,
            <<<<"H","a","r","r","y"," ","P","o","t","t","e","r"," ","a","n","d"," ","t","h","e"," ","P","h","i","l","o","s","o","p","h","e","r","'","s"," ","S","t","o","n","e">>, <<"H","a","r","r","y"," ","P","o","t","t","e","r"," ","a","n","d"," ","t","h","e"," ","C","h","a","m","b","e","r"," ","o","f"," ","S","e","c","r","e","t","s">>, <<"H","a","r","r","y"," ","P","o","t","t","e","r"," ","a","n","d"," ","t","h","e"," ","P","r","i","s","o","n","e","r"," ","o","f"," ","A","z","k","a","b","a","n">>, <<"H","a","r","r","y"," ","P","o","t","t","e","r"," ","a","n","d"," ","t","h","e"," ","G","o","b","l","e","t"," ","o","f"," ","F","i","r","e">>>>,
            <<"H","a","r","r","y"," ","P","o","t","t","e","r"," ","a","n","d"," ","t","h","e"," ","P","h","i","l","o","s","o","p","h","e","r","'","s"," ","S","t","o","n","e">>, <<"M","o","v","i","e","s">>, <<"e","a","s","y">>),
        Q(<<"W","h","i","c","h"," ","a","c","t","o","r"," ","p","l","a","y","e","d"," ","N","e","o"," ","i","n"," ","'","T","h","e"," ","M","a","t","r","i","x","'","?">>,
            <<<<"K","e","a","n","u"," ","R","e","e","v","e","s">>, <<"T","o","m"," ","C","r","u","i","s","e">>, <<"B","r","a","d"," ","P","i","t","t">>, <<"W","i","l","l"," ","S","m","i","t","h">>>>,
            <<"K","e","a","n","u"," ","R","e","e","v","e","s">>, <<"M","o","v","i","e","s">>, <<"e","a","s","y">>),
        Q(<<"W","h","i","c","h"," ","m","o","v","i","e"," ","f","e","a","t","u","r","e","s"," ","a"," ","c","h","a","r","a","c","t","e","r"," ","n","a","m","e","d"," ","F","o","r","r","e","s","t"," ","G","u","m","p","?">>,
            <<<<"F","o","r","r","e","s","t"," ","G","u","m","p">>, <<"T","h","e"," ","G","r","e","e","n"," ","M","i","l","e">>, <<"C","a","s","t"," ","A","w","a","y">>, <<"S","a","v","i","n","g"," ","P","r","i","v","a","t","e"," ","R","y","a","n">>>>,
            <<"F","o","r","r","e","s","t"," ","G","u","m","p">>, <<"M","o","v","i","e","s">>, <<"e","a","s","y">>),
        Q(<<"W","h","i","c","h"," ","o","f"," ","t","h","e","s","e"," ","i","s"," ","N","O","T"," ","a"," ","P","i","x","a","r"," ","m","o","v","i","e","?">>,
            <<<<"S","h","r","e","k">>, <<"T","o","y"," ","S","t","o","r","y">>, <<"F","i","n","d","i","n","g"," ","N","e","m","o">>, <<"U","p">>>>,
            <<"S","h","r","e","k">>, <<"M","o","v","i","e","s">>, <<"e","a","s","y">>) >>
    ELSE IF category = <<"M","o","v","i","e","s">> /\ difficulty = <<"m","e","d","i","u","m">> THEN <<
        Q(<<"W","h","o"," ","d","i","r","e","c","t","e","d"," ","'","P","u","l","p"," ","F","i","c","t","i","o","n","'","?">>,
            <<<<"Q","u","e","n","t","i","n"," ","T","a","r","a","n","t","i","n","o">>, <<"M","a","r","t","i","n"," ","S","c","o","r","s","e","s","e">>, <<"S","t","e","v","e","n"," ","S","p","i","e","l","b","e","r","g">>, <<"D","a","v","i","d"," ","F","i","n","c","h","e","r">>>>,
            <<"Q","u","e","n","t","i","n"," ","T","a","r","a","n","t","i","n","o">>, <<"M","o","v","i","e","s">>, <<"m","e","d","i","u","m">>),
        Q(<<"W","h","i","c","h"," ","a","c","t","o","r"," ","w","o","n"," ","a","n"," ","O","s","c","a","r"," ","f","o","r"," ","h","i","s"," ","r","o","l","e"," ","i","n"," ","'","T","h","e"," ","R","e","v","e","n","a","n","t","'","?">>,
            <<<<"L","e","o","n","a","r","d","o"," ","D","i","C","a","p","r","i","o">>, <<"B","r","a","d"," ","P","i","t","t">>, <<"M","a","t","t","h","e","w"," ","M","c","C","o","n","a","u","g","h","e","y">>, <<"E","d","d","i","e"," ","R","e","d","m","a","y","n","e">>>>,
            <<"L","e","o","n","a","r","d","o"," ","D","i","C","a","p","r","i","o">>, <<"M","o","v","i","e","s">>, <<"m","e","d","i","u","m">>),
        Q(<<"W","h","i","c","h"," ","m","o","v","i","e"," ","f","e","a","t","u","r","e","s"," ","t","h","e"," ","c","h","a","r","a","c","t","e","r"," ","H","a","n","n","i","b","a","l"," ","L","e","c","t","e","r","?">>,
            <<<<"T","h","e"," ","S","i","l","e","n","c","e"," ","o","f"," ","t","h","e"," ","L","a","m","b","s">>, <<"S","e","v","e","n">>, <<"P","s","y","c","h","o">>, <<"A","m","e","r","i","c","a","n"," ","P","s","y","c","h","o">>>>,
            <<"T","h","e"," ","S","i","l","e","n","c","e"," ","o","f"," ","t","h","e"," ","L","a","m","b","s">>, <<"M","o","v","i","e","s">>, <<"m","e","d","i","u","m">>),
        Q(<<"W","h","o"," ","d","i","r","e","c","t","e","d"," ","'","S","c","h","i","n","d","l","e","r","'","s"," ","L","i","s","t","'","?">>,
            <<<<"S","t","e","v","e","n"," ","S","p","i","e","l","b","e","r","g">>, <<"M","a","r","t","i","n"," ","S","c","o","r","s","e","s","e">>, <<"S","t","a","n","l","e","y"," ","K","u","b","r","i","c","k">>, <<"F","r","a","n","c","i","s"," ","F","o","r","d"," ","C","o","p","p","o","l","a">>>>,
            <<"S","t","e","v","e","n"," ","S","p","i","e","l","b","e","r","g">>, <<"M","o","v","i","e","s">>, <<"m","e","d","i","u","m">>),
        Q(<<"W","h","i","c","h"," ","m","o","v","i","e"," ","w","o","n"," ","t","h","e"," ","m","o","s","t"," ","O","s","c","a","r","s"," ","i","n"," ","h","i","s","t","o","r","y","?">>,
            <<<<"T","i","t","a","n","i","c",","," ","T","h","e"," ","L","o","r","d"," ","o","f"," ","t","h","e"," ","R","i","n","g","s",":"," ","T","h","e"," ","R","e","t","u","r","n"," ","o","f"," ","t","h","e"," ","K","i","n","g",","," ","a","n","d"," ","B","e","n","-","H","u","r"," ","(","t","i","e","d",")">>, <<"A","v","a","t","a","r">>, <<"G","o","n","e"," ","w","i","t","h"," ","t","h","e"," ","W","i","n","d">>, <<"T","h","e"," ","G","o","d","f","a","t","h","e","r">>>>,
            <<"T","i","t","a","n","i","c",","," ","T","h","e"," ","L","o","r","d"," ","o","f"," ","t","h","e"," ","R","i","n","g","s",":"," ","T","h","e"," ","R","e","t","u","r","n"," ","o","f"," ","t","h","e"," ","K","i","n","g",","," ","a","n","d"," ","B","e","n","-","H","u","r"," ","(","t","i","e","d",")">>, <<"M","o","v","i","e","s">>, <<"m","e","d","i","u","m">>),
        Q(<<"W","h","i","c","h"," ","a","c","t","r","e","s","s"," ","p","l","a","y","e","d"," ","H","e","r","m","i","o","n","e"," ","G","r","a","n","g","e","r"," ","i","n"," ","t","h","e"," ","H","a","r","r","y"," ","P","o","t","t","e","r"," ","f","i","l","m","s","?">>,
            <<<<"E","m","m","a"," ","W","a","t","s","o","n">>, <<"E","m","m","a"," ","S","t","o","n","e">>, <<"J","e","n","n","i","f","e","r"," ","L","a","w","r","e","n","c","e">>, <<"E","m","m","a"," ","R","o","b","e","r","t","s">>>>,
            <<"E","m","m","a"," ","W","a","t","s","o","n">>, <<"M","o","v","i","e","s">>, <<"m","e","d","i","u","m">>),
        Q(<<"I","n"," ","w","h","i","c","h"," ","y","e","a","r"," ","w","a","s"," ","t","h","e"," ","f","i","r","s","t"," ","S","t","a","r"," ","W","a","r","s"," ","m","o","v","i","e"," ","r","e","l","e","a","s","e","d","?">>,
            <<<<"1","9","7","7">>, <<"1","9","8","0">>, <<"1","9","7","5">>, <<"1","9","8","3">>>>,
            <<"1","9","7","7">>, <<"M","o","v","i","e","s">>, <<"m","e","d","i","u","m">>),
        Q(<<"W","h","a","t"," ","i","s"," ","t","h","e"," ","h","i","g","h","e","s","t","-","g","r","o","s","s","i","n","g"," ","a","n","i","m","a","t","e","d"," ","f","i","l","m"," ","o","f"," ","a","l","l"," ","t","i","m","e"," ","(","a","s"," ","o","f"," ","2","0","2","3",")","?">>,
            <<<<"T","h","e"," ","L","i","o","n"," ","K","i","n","g"," ","(","2","0","1","9",")">>, <<"F","r","o","z","e","n"," ","I","I">>, <<"S","u","p","e","r"," ","M","a","r","i","o"," ","B","r","o","s","."," ","M","o","v","i","e">>, <<"I","n","c","r","e","d","i","b","l","e","s"," ","2">>>>,
            <<"T","h","e"," ","L","i","o","n"," ","K","i","n","g"," ","(","2","0","1","9",")">>, <<"M","o","v","i","e","s">>, <<"m","e","d","i","u","m">>),
        Q(<<"W","h","i","c","h"," ","f","i","l","m"," ","w","o","n"," ","t","h","e"," ","A","c","a","d","e","m","y"," ","A","w","a","r","d"," ","f","o","r"," ","B","e","s","t"," ","P","i","c","t","u","r","e"," ","i","n"," ","2","0","1","9","?">>,
            <<<<"G","r","e","e","n"," ","B","o","o","k">>, <<"R","o","m","a">>, <<"B","l","a","c","k"," ","P","a","n","t","h","e","r">>, <<"A"," ","S","t","a","r"," ","I","s"," ","B","o","r","n">>>>,
            <<"G","r","e","e","n"," ","B","o","o","k">>, <<"M","o","v","i","e","s">>, <<"m","e","d","i","u","m">>),
        Q(<<"W","h","o"," ","d","i","r","e","c","t","e","d"," ","'","I","n","c","e","p","t","i","o","n","'","?">>,
            <<<<"C","h","r","i","s","t","o","p","h","e","r"," ","N","o","l","a","n">>, <<"J","a","m","e","s"," ","C","a","m","e","r","o","n">>, <<"S","t","e","v","e","n"," ","S","p","i","e","l","b","e","r","g">>, <<"M","a","r","t","i","n"," ","S","c","o","r","s","e","s","e">>>>,
            <<"C","h","r","i","s","t","o","p","h","e","r"," ","N","o","l","a","n">>, <<"M","o","v","i","e","s">>, <<"m","e","d","i","u","m">>) >>
    ELSE IF category = <<"M","o","v","i","e","s">> /\ difficulty = <<"h","a","r","d">> THEN <<
        Q(<<"W","h","i","c","h"," ","a","c","t","o","r"," ","h","a","s"," ","w","o","n"," ","t","h","e"," ","m","o","s","t"," ","A","c","a","d","e","m","y"," ","A","w","a","r","d","s"," ","f","o","r"," ","B","e","s","t"," ","A","c","t","o","r","?">>,
            <<<<"D","a","n","i","e","l"," ","D","a","y","-","L","e","w","i","s">>, <<"J","a","c","k"," ","N","i","c","h","o","l","s","o","n">>, <<"M","a","r","l","o","n"," ","B","r","a","n","d","o">>, <<"T","o","m"," ","H","a","n","k","s">>>>,
            <<"D","a","n","i","e","l"," ","D","a","y","-","L","e","w","i","s">>, <<"M","o","v","i","e","s">>, <<"h","a","r","d">>),
        Q(<<"W","h","o"," ","d","i","r","e","c","t","e","d"," ","t","h","e"," ","1","9","6","3"," ","f","i","l","m"," ","'","8","½","'","?">>,
            <<<<"F","e","d","e","r","i","c","o"," ","F","e","l","l","i","n","i">>, <<"I","n","g","m","a","r"," ","B","e","r","g","m","a","n">>, <<"A","k","i","r","a"," ","K","u","r","o","s","a","w","a">>, <<"F","r","a","n","ç","o","i","s"," ","T","r","u","f","f","a","u","t">>>>,
            <<"F","e","d","e","r","i","c","o"," ","F","e","l","l","i","n","i">>, <<"M","o","v","i","e","s">>, <<"h","a","r","d">>),
        Q(<<"W","h","i","c","h"," ","m","o","v","i","e"," ","w","a","s"," ","b","a","s","e","d"," ","o","n"," ","t","h","e"," ","n","o","v","e","l"," ","'","D","o"," ","A","n","d","r","o","i","d","s"," ","D","r","e","a","m"," ","o","f"," ","E","l","e","c","t","r","i","c"," ","S","h","e","e","p","?","'">>,
            <<<<"B","l","a","d","e"," ","R","u","n","n","e","r">>, <<"T","o","t","a","l"," ","R","e","c","a","l","l">>, <<"T","h","e"," ","M","a","t","r","i","x">>, <<"M","i","n","o","r","i","t","y"," ","R","e","p","o","r","t">>>>,
            <<"B","l","a","d","e"," ","R","u","n","n","e","r">>, <<"M","o","v","i","e","s">>, <<"h","a","r","d">>),
        Q(<<"W","h","i","c","h"," ","f","i","l","m"," ","w","o","n"," ","t","h","e"," ","P","a","l","m","e"," ","d","'","O","r"," ","a","t"," ","t","h","e"," ","C","a","n","n","e","s"," ","F","i","l","m"," ","F","e","s","t","i","v","a","l"," ","i","n"," ","1","9","9","4","?">>,
            <<<<"P","u","l","p"," ","F","i","c","t","i","o","n">>, <<"T","h","e"," ","P","i","a","n","o">>, <<"S","c","h","i","n","d","l","e","r","'","s"," ","L","i","s","t">>, <<"T","h","r","e","e"," ","C","o","l","o","r","s",":"," ","R","e","d">>>>,
            <<"P","u","l","p"," ","F","i","c","t","i","o","n">>, <<"M","o","v","i","e","s">>, <<"h","a","r","d">>),
        Q(<<"W","h","o"," ","w","a","s"," ","t","h","e"," ","y","o","u","n","g","e","s","t"," ","p","e","r","s","o","n"," ","t","o"," ","w","i","n"," ","a","n"," ","A","c","a","d","e","m","y"," ","A","w","a","r","d"," ","f","o","r"," ","B","e","s","t"," ","D","i","r","e","c","t","o","r","?">>,
            <<<<"D","a","m","i","e","n"," ","C","h","a","z","e","l","l","e">>, <<"O","r","s","o","n"," ","W","e","l","l","e","s">>, <<"S","t","e","v","e","n"," ","S","p","i","e","l","b","e","r","g">>, <<"J","o","h","n"," ","S","i","n","g","l","e","t","o","n">>>>,
            <<"D","a","m","i","e","n"," ","C","h","a","z","e","l","l","e">>, <<"M","o","v","i","e","s">>, <<"h","a","r","d">>),
        Q(<<"W","h","i","c","h"," ","f","i","l","m"," ","h","o","l","d","s"," ","t","h","e"," ","r","e","c","o","r","d"," ","f","o","r"," ","m","o","s","t"," ","A","c","a","d","e","m","y"," ","A","w","a","r","d"," ","n","o","m","i","n","a","t","i","o","n","s"," ","w","i","t","h","o","u","t"," ","w","i","n","n","i","n","g"," ","a","n","y","?">>,
            <<<<"T","h","e"," ","T","u","r","n","i","n","g"," ","P","o","i","n","t"," ","a","n","d"," ","T","h","e"," ","C","o","l","o","r"," ","P","u","r","p","l","e"," ","(","t","i","e","d",")">>, <<"A","m","e","r","i","c","a","n"," ","H","u","s","t","l","e">>, <<"G","a","n","g","s"," ","o","f"," ","N","e","w"," ","Y","o","r","k">>, <<"T","h","e"," ","I","r","i","s","h","m","a","n">>>>,
            <<"T","h","e"," ","T","u","r","n","i","n","g"," ","P","o","i","n","t"," ","a","n","d"," ","T","h","e"," ","C","o","l","o","r"," ","P","u","r","p","l","e"," ","(","t","i","e","d",")">>, <<"M","o","v","i","e","s">>, <<"h","a","r","d">>),
        Q(<<"I","n"," ","t","h","e"," ","o","r","i","g","i","n","a","l"," ","'","K","i","n","g"," ","K","o","n","g","'"," ","(","1","9","3","3",")",","," ","w","h","a","t"," ","w","a","s"," ","t","h","e"," ","n","a","m","e"," ","o","f"," ","t","h","e"," ","i","s","l","a","n","d"," ","w","h","e","r","e"," ","K","o","n","g"," ","w","a","s"," ","f","o","u","n","d","?">>,
            <<<<"S","k","u","l","l"," ","I","s","l","a","n","d">>, <<"M","o","n","s","t","e","r"," ","I","s","l","a","n","d">>, <<"K","o","n","g"," ","I","s","l","a","n","d">>, <<"A","p","e"," ","I","s","l","a","n","d">>>>,
            <<"S","k","u","l","l"," ","I","s","l","a","n","d">>, <<"M","o","v","i","e","s">>, <<"h","a","r","d">>),
        Q(<<"W","h","i","c","h"," ","a","c","t","r","e","s","s"," ","h","a","s"," ","r","e","c","e","i","v","e","d"," ","t","h","e"," ","m","o","s","t"," ","A","c","a","d","e","m","y"," ","A","w","a","r","d"," ","n","o","m","i","n","a","t","i","o","n","s"," ","w","i","t","h","o","u","t"," ","w","i","n","n","i","n","g","?">>,
            <<<<"G","l","e","n","n"," ","C","l","o","s","e">>, <<"A","m","y"," ","A","d","a","m","s">>, <<"D","e","b","o","r","a","h"," ","K","e","r","r">>, <<"T","h","e","l","m","a"," ","R","i","t","t","e","r">>>>,
            <<"G","l","e","n","n"," ","C","l","o","s","e">>, <<"M","o","v","i","e","s">>, <<"h","a","r","d">>),
        Q(<<"W","h","o"," ","w","a","s"," ","o","r","i","g","i","n","a","l","l","y"," ","c","a","s","t"," ","a","s"," ","A","r","a","g","o","r","n"," ","i","n"," ","'","T","h","e"," ","L","o","r","d"," ","o","f"," ","t","h","e"," ","R","i","n","g","s","'"," ","b","e","f","o","r","e"," ","V","i","g","g","o"," ","M","o","r","t","e","n","s","e","n","?">>,
            <<<<"S","t","u","a","r","t"," ","T","o","w","n","s","e","n","d">>, <<"R","u","s","s","e","l","l"," ","C","r","o","w","e">>, <<"N","i","c","o","l","a","s"," ","C","a","g","e">>, <<"D","a","n","i","e","l"," ","D","a","y","-","L","e","w","i","s">>>>,
            <<"S","t","u","a","r","t"," ","T","o","w","n","s","e","n","d">>, <<"M","o","v","i","e","s">>, <<"h","a","r","d">>),
        Q(<<"W","h","i","c","h"," ","c","l","a","s","s","i","c"," ","f","i","l","m"," ","f","e","a","t","u","r","e","s"," ","t","h","e"," ","l","i","n","e"," ","'","R","o","s","e","b","u","d","'","?">>,
            <<<<"C","i","t","i","z","e","n"," ","K","a","n","e">>, <<"C","a","s","a","b","l","a","n","c","a">>, <<"G","o","n","e"," ","w","i","t","h"," ","t","h","e"," ","W","i","n","d">>, <<"I","t","'","s"," ","a"," ","W","o","n","d","e","r","f","u","l"," ","L","i","f","e">>>>,
            <<"C","i","t","i","z","e","n"," ","K","a","n","e">>, <<"M","o","v","i","e","s">>, <<"h","a","r","d">>) >>
    ELSE IF category = <<"S","p","o","r","t","s">> /\ difficulty = <<"e","a","s","y">> THEN <<
        Q(<<"I","n"," ","w","h","i","c","h"," ","s","p","o","r","t"," ","w","o","u","l","d"," ","y","o","u"," ","p","e","r","f","o","r","m"," ","a"," ","s","l","a","m"," ","d","u","n","k","?">>,
            <<<<"B","a","s","k","e","t","b","a","l","l">>, <<"F","o","o","t","b","a","l","l">>, <<"T","e","n","n","i","s">>, <<"G","o","l","f">>>>,
            <<"B","a","s","k","e","t","b","a","l","l">>, <<"S","p","o","r","t","s">>, <<"e","a","s","y">>) >>
    ELSE IF category = <<"T","e","c","h","n","o","l","o","g","y">> /\ difficulty = <<"e","a","s","y">> THEN <<
        Q(<<"W","h","o"," ","f","o","u","n","d","e","d"," ","M","i","c","r","o","s","o","f","t","?">>,
            <<<<"B","i","l","l"," ","G","a","t","e","s">>, <<"S","t","e","v","e"," ","J","o","b","s">>, <<"M","a","r","k"," ","Z","u","c","k","e","r","b","e","r","g">>, <<"J","e","f","f"," ","B","e","z","o","s">>>>,
            <<"B","i","l","l"," ","G","a","t","e","s">>, <<"T","e","c","h","n","o","l","o","g","y">>, <<"e","a","s","y">>) >>
    ELSE IF category = <<"M","u","s","i","c">> /\ difficulty = <<"e","a","s","y">> THEN <<
        Q(<<"W","h","i","c","h"," ","b","a","n","d"," ","p","e","r","f","o","r","m","e","d"," ","t","h","e"," ","s","o","n","g"," ","'","B","o","h","e","m","i","a","n"," ","R","h","a","p","s","o","d","y","'","?">>,
            <<<<"Q","u","e","e","n">>, <<"T","h","e"," ","B","e","a","t","l","e","s">>, <<"L","e","d"," ","Z","e","p","p","e","l","i","n">>, <<"R","o","l","l","i","n","g"," ","S","t","o","n","e","s">>>>,
            <<"Q","u","e","e","n">>, <<"M","u","s","i","c">>, <<"e","a","s","y">>) >>
    ELSE <<>>

\* the dict guaranteed_questions of _create_guaranteed_questions: its value at
\* [category][difficulty], for a category and a difficulty that are keys
guaranteed_categories == {<<"S","c","i","e","n","c","e">>, <<"H","i","s","t","o","r","y">>, <<"G","e","o","g","r","a","p","h","y">>, <<"L","i","t","e","r","a","t","u","r","e">>, <<"M","o","v","i","e","s">>, <<"T","e","c","h","n","o","l","o","g","y">>}

guaranteed_difficulties(category) == {<<"e","a","s","y">>, <<"m","e","d","i","u","m">>, <<"h","a","r","d">>}

guaranteed_questions(category, difficulty) ==
    IF category = <<"S","c","i","e","n","c","e">> /\ difficulty = <<"e","a","s","y">> THEN <<
        Q(<<"W","h","a","t"," ","i","s"," ","t","h","e"," ","l","a","r","g","e","s","t"," ","p","l","a","n","e","t"," ","i","n"," ","o","u","r"," ","s","o","l","a","r"," ","s","y","s","t","e","m","?">>,
            <<<<"J","u","p","i","t","e","r">>, <<"S","a","t","u","r","n">>, <<"N","e","p","t","u","n","e">>, <<"E","a","r","t","h">>>>,
            <<"J","u","p","i","t","e","r">>, <<"S","c","i","e","n","c","e">>, <<"e","a","s","y">>),
        Q(<<"W","h","a","t"," ","i","s"," ","t","h","e"," ","c","h","e","m","i","c","a","l"," ","f","o","r","m","u","l","a"," ","f","o","r"," ","w","a","t","e","r","?">>,
            <<<<"H","2","O">>, <<"C","O","2">>, <<"O","2">>, <<"N","a","C","l">>>>,
            <<"H","2","O">>, <<"S","c","i","e","n","c","e">>, <<"e","a","s","y">>) >>
    ELSE IF category = <<"S","c","i","e","n","c","e">> /\ difficulty = <<"m","e","d","i","u","m">> THEN <<
        Q(<<"W","h","a","t"," ","i","s"," ","t","h","e"," ","a","t","o","m","i","c"," ","n","u","m","b","e","r"," ","o","f"," ","c","a","r","b","o","n","?">>,
            <<<<"6">>, <<"1","2">>, <<"1","4">>, <<"8">>>>,
            <<"6">>, <<"S","c","i","e","n","c","e">>, <<"m","e","d","i","u","m">>) >>
    ELSE IF category = <<"S","c","i","e","n","c","e">> /\ difficulty = <<"h","a","r","d">> THEN <<
        Q(<<"W","h","a","t"," ","i","s"," ","t","h","e"," ","h","a","l","f","-","l","i","f","e"," ","o","f"," ","C","a","r","b","o","n","-","1","4","?">>,
            <<<<"5",",","7","3","0"," ","y","e","a","r","s">>, <<"1",",","6","0","0"," ","y","e","a","r","s">>, <<"1","0",",","0","0","0"," ","y","e","a","r","s">>, <<"3",",","2","0","0"," ","y","e","a","r","s">>>>,
            <<"5",",","7","3","0"," ","y","e","a","r","s">>, <<"S","c","i","e","n","c","e">>, <<"h","a","r","d">>) >>
    ELSE IF category = <<"H","i","s","t","o","r","y">> /\ difficulty = <<"e","a","s","y">> THEN <<
        Q(<<"W","h","o"," ","w","a","s"," ","t","h","e"," ","f","i","r","s","t"," ","P","r","e","s","i","d","e","n","t"," ","o","f"," ","t","h","e"," ","U","n","i","t","e","d"," ","S","t","a","t","e","s","?">>,
            <<<<"G","e","o","r","g","e"," ","W","a","s","h","i","n","g","t","o","n">>, <<"T","h","o","m","a","s"," ","J","e","f","f","e","r","s","o","n">>, <<"A","b","r","a","h","a","m"," ","L","i","n","c","o","l","n">>, <<"J","o","h","n"," ","A","d","a","m","s">>>>,
            <<"G","e","o","r","g","e"," ","W","a","s","h","i","n","g","t","o","n">>, <<"H","i","s","t","o","r","y">>, <<"e","a","s","y">>) >>
    ELSE IF category = <<"H","i","s","t","o","r","y">> /\ difficulty = <<"m","e","d","i","u","m">> THEN <<
        Q(<<"I","n"," ","w","h","a","t"," ","y","e","a","r"," ","d","i","d"," ","W","o","r","l","d"," ","W","a","r"," ","I","I"," ","e","n","d","?">>,
            <<<<"1","9","4","5">>, <<"1","9","3","9">>, <<"1","9","4","2">>, <<"1","9","4","4">>>>,
            <<"1","9","4","5">>, <<"H","i","s","t","o","r","y">>, <<"m","e","d","i","u","m">>) >>
    ELSE IF category = <<"H","i","s","t","o","r","y">> /\ difficulty = <<"h","a","r","d">> THEN <<
        Q(<<"W","h","i","c","h"," ","t","r","e","a","t","y"," ","e","n","d","e","d"," ","t","h","e"," ","W","a","r"," ","o","f"," ","1","8","1","2","?">>,
            <<<<"T","r","e","a","t","y"," ","o","f"," ","G","h","e","n","t">>, <<"T","r","e","a","t","y"," ","o","f"," ","P","a","r","i","s">>, <<"T","r","e","a","t","y"," ","o","f"," ","V","e","r","s","a","i","l","l","e","s">>, <<"T","r","e","a","t","y"," ","o","f"," ","T","o","r","d","e","s","i","l","l","a","s">>>>,
            <<"T","r","e","a","t","y"," ","o","f"," ","G","h","e","n","t">>, <<"H","i","s","t","o","r","y">>, <<"h","a","r","d">>) >>
    ELSE IF category = <<"G","e","o","g","r","a","p","h","y">> /\ difficulty = <<"e","a","s","y">> THEN <<
        Q(<<"W","h","a","t"," ","i","s"," ","t","h","e"," ","c","a","p","i","t","a","l"," ","o","f"," ","F","r","a","n","c","e","?">>,
            <<<<"P","a","r","i","s">>, <<"L","o","n","d","o","n">>, <<"B","e","r","l","i","n">>, <<"M","a","d","r","i","d">>>>,
            <<"P","a","r","i","s">>, <<"G","e","o","g","r","a","p","h","y">>, <<"e","a","s","y">>) >>
    ELSE IF category = <<"G","e","o","g","r","a","p","h","y">> /\ difficulty = <<"m","e","d","i","u","m">> THEN <<
        Q(<<"W","h","i","c","h"," ","r","i","v","e","r"," ","i","s"," ","t","h","e"," ","l","o","n","g","e","s","t"," ","i","n"," ","t","h","e"," ","w","o","r","l","d","?">>,
            <<<<"N","i","l","e">>, <<"A","m","a","z","o","n">>, <<"M","i","s","s","i","s","s","i","p","p","i">>, <<"Y","a","n","g","t","z","e">>>>,
            <<"N","i","l","e">>, <<"G","e","o","g","r","a","p","h","y">>, <<"m","e","d","i","u","m">>) >>
    ELSE IF category = <<"G","e","o","g","r","a","p","h","y">> /\ difficulty = <<"h","a","r","d">> THEN <<
        Q(<<"W","h","i","c","h"," ","c","o","u","n","t","r","y"," ","h","a","s"," ","t","h","e"," ","m","o","s","t"," ","n","a","t","u","r","a","l"," ","l","a","k","e","s","?">>,
            <<<<"C","a","n","a","d","a">>, <<"U","n","i","t","e","d"," ","S","t","a","t","e","s">>, <<"R","u","s","s","i","a">>, <<"F","i","n","l","a","n","d">>>>,
            <<"C","a","n","a","d","a">>, <<"G","e","o","g","r","a","p","h","y">>, <<"h","a","r","d">>) >>
    ELSE IF category = <<"L","i","t","e","r","a","t","u","r","e">> /\ difficulty = <<"e","a","s","y">> THEN <<
        Q(<<"W","h","o"," ","w","r","o","t","e"," ","'","R","o","m","e","o"," ","a","n","d"," ","J","u","l","i","e","t","'","?">>,
            <<<<"W","i","l","l","i","a","m"," ","S","h","a","k","e","s","p","e","a","r","e">>, <<"C","h","a","r","l","e","s"," ","D","i","c","k","e","n","s">>, <<"J","a","n","e"," ","A","u","s","t","e","n">>, <<"M","a","r","k"," ","T","w","a","i","n">>>>,
            <<"W","i","l","l","i","a","m"," ","S","h","a","k","e","s","p","e","a","r","e">>, <<"L","i","t","e","r","a","t","u","r","e">>, <<"e","a","s","y">>) >>
    ELSE IF category = <<"L","i","t","e","r","a","t","u","r","e">> /\ difficulty = <<"m","e","d","i","u","m">> THEN <<
        Q(<<"W","h","i","c","h"," ","n","o","v","e","l"," ","b","e","g","i","n","s"," ","w","i","t","h"," ","t","h","e"," ","l","i","n","e"," ","'","I","t"," ","w","a","s"," ","t","h","e"," ","b","e","s","t"," ","o","f"," ","t","i","m","e","s",","," ","i","t"," ","w","a","s"," ","t","h","e"," ","w","o","r","s","t"," ","o","f"," ","t","i","m","e","s","'","?">>,
            <<<<"A"," ","T","a","l","e"," ","o","f"," ","T","w","o"," ","C","i","t","i","e","s">>, <<"G","r","e","a","t"," ","E","x","p","e","c","t","a","t","i","o","n","s">>, <<"O","l","i","v","e","r"," ","T","w","i","s","t">>, <<"D","a","v","i","d"," ","C","o","p","p","e","r","f","i","e","l","d">>>>,
            <<"A"," ","T","a","l","e"," ","o","f"," ","T","w","o"," ","C","i","t","i","e","s">>, <<"L","i","t","e","r","a","t","u","r","e">>, <<"m","e","d","i","u","m">>) >>
    ELSE IF category = <<"L","i","t","e","r","a","t","u","r","e">> /\ difficulty = <<"h","a","r","d">> THEN <<
        Q(<<"W","h","o"," ","w","r","o","t","e"," ","'","O","n","e"," ","H","u","n","d","r","e","d"," ","Y","e","a","r","s"," ","o","f"," ","S","o","l","i","t","u","d","e","'","?">>,
            <<<<"G","a","b","r","i","e","l"," ","G","a","r","c","í","a"," ","M","á","r","q","u","e","z">>, <<"J","o","r","g","e"," ","L","u","i","s"," ","B","o","r","g","e","s">>, <<"P","a","b","l","o"," ","N","e","r","u","d","a">>, <<"I","s","a","b","e","l"," ","A","l","l","e","n","d","e">>>>,
            <<"G","a","b","r","i","e","l"," ","G","a","r","c","í","a"," ","M","á","r","q","u","e","z">>, <<"L","i","t","e","r","a","t","u","r","e">>, <<"h","a","r","d">>) >>
    ELSE IF category = <<"M","o","v","i","e","s">> /\ difficulty = <<"e","a","s","y">> THEN <<
        Q(<<"W","h","o"," ","d","i","r","e","c","t","e","d"," ","t","h","e"," ","m","o","v","i","e"," ","'","T","i","t","a","n","i","c","'","?">>,
            <<<<"J","a","m","e","s"," ","C","a","m","e","r","o","n">>, <<"S","t","e","v","e","n"," ","S","p","i","e","l","b","e","r","g">>, <<"C","h","r","i","s","t","o","p","h","e","r"," ","N","o","l","a","n">>, <<"M","a","r","t","i","n"," ","S","c","o","r","s","e","s","e">>>>,
            <<"J","a","m","e","s"," ","C","a","m","e","r","o","n">>, <<"M","o","v","i","e","s">>, <<"e","a","s","y">>) >>
    ELSE IF category = <<"M","o","v","i","e","s">> /\ difficulty = <<"m","e","d","i","u","m">> THEN <<
        Q(<<"W","h","i","c","h"," ","a","c","t","o","r"," ","p","l","a","y","e","d"," ","I","r","o","n"," ","M","a","n"," ","i","n"," ","t","h","e"," ","M","a","r","v","e","l"," ","C","i","n","e","m","a","t","i","c"," ","U","n","i","v","e","r","s","e","?">>,
            <<<<"R","o","b","e","r","t"," ","D","o","w","n","e","y"," ","J","r",".">>, <<"C","h","r","i","s"," ","E","v","a","n","s">>, <<"C","h","r","i","s"," ","H","e","m","s","w","o","r","t","h">>, <<"M","a","r","k"," ","R","u","f","f","a","l","o">>>>,
            <<"R","o","b","e","r","t"," ","D","o","w","n","e","y"," ","J","r",".">>, <<"M","o","v","i","e","s">>, <<"m","e","d","i","u","m">>) >>
    ELSE IF category = <<"M","o","v","i","e","s">> /\ difficulty = <<"h","a","r","d">> THEN <<
        Q(<<"W","h","i","c","h"," ","f","i","l","m"," ","w","o","n"," ","t","h","e"," ","A","c","a","d","e","m","y"," ","A","w","a","r","d"," ","f","o","r"," ","B","e","s","t"," ","P","i","c","t","u","r","e"," ","i","n"," ","1","9","9","4","?">>,
            <<<<"S","c","h","i","n","d","l","e","r","'","s"," ","L","i","s","t">>, <<"T","h","e"," ","F","u","g","i","t","i","v","e">>, <<"T","h","e"," ","P","i","a","n","o">>, <<"T","h","e"," ","R","e","m","a","i","n","s"," ","o","f"," ","t","h","e"," ","D","a","y">>>>,
            <<"S","c","h","i","n","d","l","e","r","'","s"," ","L","i","s","t">>, <<"M","o","v","i","e","s">>, <<"h","a","r","d">>) >>
    ELSE IF category = <<"T","e","c","h","n","o","l","o","g","y">> /\ difficulty = <<"e","a","s","y">> THEN <<
        Q(<<"W","h","a","t"," ","d","o","e","s"," ","C","P","U"," ","s","t","a","n","d"," ","f","o","r","?">>,
            <<<<"C","e","n","t","r","a","l"," ","P","r","o","c","e","s","s","i","n","g"," ","U","n","i","t">>, <<"C","o","m","p","u","t","e","r"," ","P","e","r","s","o","n","a","l"," ","U","n","i","t">>, <<"C","e","n","t","r","a","l"," ","P","r","o","c","e","s","s"," ","U","n","i","t">>, <<"C","e","n","t","r","a","l"," ","P","r","o","c","e","s","s","o","r"," ","U","n","i","t">>>>,
            <<"C","e","n","t","r","a","l"," ","P","r","o","c","e","s","s","i","n","g"," ","U","n","i","t">>, <<"T","e","c","h","n","o","l","o","g","y">>, <<"e","a","s","y">>) >>
    ELSE IF category = <<"T","e","c","h","n","o","l","o","g","y">> /\ difficulty = <<"m","e","d","i","u","m">> THEN <<
        Q(<<"I","n"," ","w","h","a","t"," ","y","e","a","r"," ","w","a","s"," ","t","h","e"," ","f","i","r","s","t"," ","i","P","h","o","n","e"," ","r","e","l","e","a","s","e","d","?">>,
            <<<<"2","0","0","7">>, <<"2","0","0","5">>, <<"2","0","0","9">>, <<"2","0","1","0">>>>,
            <<"2","0","0","7">>, <<"T","e","c","h","n","o","l","o","g","y">>, <<"m","e","d","i","u","m">>) >>
    ELSE IF category = <<"T","e","c","h","n","o","l","o","g","y">> /\ difficulty = <<"h","a","r","d">> THEN <<
        Q(<<"W","h","o"," ","i","s"," ","c","o","n","s","i","d","e","r","e","d"," ","t","h","e"," ","f","a","t","h","e","r"," ","o","f"," ","m","o","d","e","r","n"," ","c","o","m","p","u","t","e","r"," ","s","c","i","e","n","c","e","?">>,
            <<<<"A","l","a","n"," ","T","u","r","i","n","g">>, <<"B","i","l","l"," ","G","a","t","e","s">>, <<"S","t","e","v","e"," ","J","o","b","s">>, <<"T","i","m"," ","B","e","r","n","e","r","s","-","L","e","e">>>>,
            <<"A","l","a","n"," ","T","u","r","i","n","g">>, <<"T","e","c","h","n","o","l","o","g","y">>, <<"h","a","r","d">>) >>
    ELSE <<>>

\* the list default_questions of _create_guaranteed_questions
default_questions(category, difficulty) == <<
        Q(<<"W","h","a","t"," ","i","s"," ","t","h","e"," ","c","a","p","i","t","a","l"," ","o","f"," ","J","a","p","a","n","?">>,
            <<<<"T","o","k","y","o">>, <<"B","e","i","j","i","n","g">>, <<"S","e","o","u","l">>, <<"B","a","n","g","k","o","k">>>>,
            <<"T","o","k","y","o">>, category, difficulty),
        Q(<<"W","h","o"," ","p","a","i","n","t","e","d"," ","t","h","e"," ","M","o","n","a"," ","L","i","s","a","?">>,
            <<<<"L","e","o","n","a","r","d","o"," ","d","a"," ","V","i","n","c","i">>, <<"P","a","b","l","o"," ","P","i","c","a","s","s","o">>, <<"V","i","n","c","e","n","t"," ","v","a","n"," ","G","o","g","h">>, <<"M","i","c","h","e","l","a","n","g","e","l","o">>>>,
            <<"L","e","o","n","a","r","d","o"," ","d","a"," ","V","i","n","c","i">>, category, difficulty),
        Q(<<"W","h","a","t"," ","i","s"," ","t","h","e"," ","l","a","r","g","e","s","t"," ","o","c","e","a","n"," ","o","n"," ","E","a","r","t","h","?">>,
            <<<<"P","a","c","i","f","i","c"," ","O","c","e","a","n">>, <<"A","t","l","a","n","t","i","c"," ","O","c","e","a","n">>, <<"I","n","d","i","a","n"," ","O","c","e","a","n">>, <<"A","r","c","t","i","c"," ","O","c","e","a","n">>>>,
            <<"P","a","c","i","f","i","c"," ","O","c","e","a","n">>, category, difficulty) >>

\* the dict generic_q built by one iteration of the filling loop of
\* _create_fallback_questions, when `questions` holds n records
generic_q(category, difficulty, n) ==
    IF category = <<"S","c","i","e","n","c","e">> THEN
        Q(<<"W","h","a","t"," ","s","c","i","e","n","t","i","f","i","c"," ","d","i","s","c","o","v","e","r","y"," ","w","a","s"," ","m","a","d","e"," ","i","n"," ","t","h","e"," ">> \o str_int(n + 1)
              \o <<"0","s"," ","t","h","a","t"," ","r","e","v","o","l","u","t","i","o","n","i","z","e","d"," ","t","h","e"," ","f","i","e","l","d","?">>,
          <<<<"C","o","r","r","e","c","t"," ","s","c","i","e","n","t","i","f","i","c"," ","t","h","e","o","r","y">>, <<"I","n","c","o","r","r","e","c","t"," ","s","c","i","e","n","t","i","f","i","c"," ","t","h","e","o","r","y"," ","A">>,
            <<"I","n","c","o","r","r","e","c","t"," ","s","c","i","e","n","t","i","f","i","c"," ","t","h","e","o","r","y"," ","B">>, <<"I","n","c","o","r","r","e","c","t"," ","s","c","i","e","n","t","i","f","i","c"," ","t","h","e","o","r","y"," ","C">>>>,
          <<"C","o","r","r","e","c","t"," ","s","c","i","e","n","t","i","f","i","c"," ","t","h","e","o","r","y">>, category, difficulty)
    ELSE IF category = <<"H","i","s","t","o","r","y">> THEN
        Q(<<"W","h","i","c","h"," ","h","i","s","t","o","r","i","c","a","l"," ","f","i","g","u","r","e"," ","w","a","s"," ","m","o","s","t"," ","i","n","f","l","u","e","n","t","i","a","l"," ","i","n"," ","t","h","e"," ">> \o str_int(n + 1)
              \o <<"t","h"," ","c","e","n","t","u","r","y","?">>,
          <<<<"C","o","r","r","e","c","t"," ","h","i","s","t","o","r","i","c","a","l"," ","f","i","g","u","r","e">>, <<"I","n","c","o","r","r","e","c","t"," ","h","i","s","t","o","r","i","c","a","l"," ","f","i","g","u","r","e"," ","A">>,
            <<"I","n","c","o","r","r","e","c","t"," ","h","i","s","t","o","r","i","c","a","l"," ","f","i","g","u","r","e"," ","B">>, <<"I","n","c","o","r","r","e","c","t"," ","h","i","s","t","o","r","i","c","a","l"," ","f","i","g","u","r","e"," ","C">>>>,
          <<"C","o","r","r","e","c","t"," ","h","i","s","t","o","r","i","c","a","l"," ","f","i","g","u","r","e">>, category, difficulty)
    ELSE IF category = <<"G","e","o","g","r","a","p","h","y">> THEN
        Q(<<"W","h","i","c","h"," ","g","e","o","g","r","a","p","h","i","c","a","l"," ","f","e","a","t","u","r","e"," ","i","s"," ","m","o","s","t"," ","p","r","o","m","i","n","e","n","t"," ","i","n"," ">>
              \o <<<<"A","s","i","a">>, <<"A","f","r","i","c","a">>, <<"E","u","r","o","p","e">>, <<"N","o","r","t","h"," ","A","m","e","r","i","c","a">>>>[(n % 4) + 1]
              \o <<"?">>,
          <<<<"C","o","r","r","e","c","t"," ","g","e","o","g","r","a","p","h","i","c","a","l"," ","a","n","s","w","e","r">>, <<"I","n","c","o","r","r","e","c","t"," ","g","e","o","g","r","a","p","h","i","c","a","l"," ","a","n","s","w","e","r"," ","A">>,
            <<"I","n","c","o","r","r","e","c","t"," ","g","e","o","g","r","a","p","h","i","c","a","l"," ","a","n","s","w","e","r"," ","B">>, <<"I","n","c","o","r","r","e","c","t"," ","g","e","o","g","r","a","p","h","i","c","a","l"," ","a","n","s","w","e","r"," ","C">>>>,
          <<"C","o","r","r","e","c","t"," ","g","e","o","g","r","a","p","h","i","c","a","l"," ","a","n","s","w","e","r">>, category, difficulty)
    ELSE IF category = <<"L","i","t","e","r","a","t","u","r","e">> THEN
        Q(<<"W","h","i","c","h"," ","a","u","t","h","o","r"," ","m","a","d","e"," ","t","h","e"," ","b","i","g","g","e","s","t"," ","c","o","n","t","r","i","b","u","t","i","o","n"," ","t","o"," ">> \o str_int(n + 1)
              \o <<"t","h"," ","c","e","n","t","u","r","y"," ","l","i","t","e","r","a","t","u","r","e","?">>,
          <<<<"C","o","r","r","e","c","t"," ","a","u","t","h","o","r">>, <<"I","n","c","o","r","r","e","c","t"," ","a","u","t","h","o","r"," ","A">>,
            <<"I","n","c","o","r","r","e","c","t"," ","a","u","t","h","o","r"," ","B">>, <<"I","n","c","o","r","r","e","c","t"," ","a","u","t","h","o","r"," ","C">>>>,
          <<"C","o","r","r","e","c","t"," ","a","u","t","h","o","r">>, category, difficulty)
    ELSE
        Q(<<"I","m","p","o","r","t","a","n","t"," ","q","u","e","s","t","i","o","n"," ","a","b","o","u","t"," ">> \o category \o <<" ","(","#">> \o str_int(n + 1) \o <<")">>,
          <<<<"C","o","r","r","e","c","t"," ","A","n","s","w","e","r">>, <<"I","n","c","o","r","r","e","c","t"," ","A","n","s","w","e","r"," ","A">>,
            <<"I","n","c","o","r","r","e","c","t"," ","A","n","s","w","e","r"," ","B">>, <<"I","n","c","o","r","r","e","c","t"," ","A","n","s","w","e","r"," ","C">>>>,
          <<"C","o","r","r","e","c","t"," ","A","n","s","w","e","r">>, category, difficulty)

\* the loop `while len(questions) < count` of _create_fallback_questions
RECURSIVE fill_generic(_, _, _, _)
fill_generic(questions, category, difficulty, count) ==
    IF Len(questions) >= count THEN questions
    ELSE fill_generic(Append(questions, generic_q(category, difficulty, Len(questions))),
                      category, difficulty, count)

\* AIGenerator._create_fallback_questions(category, difficulty, count)
create_fallback_questions(category, difficulty, count) ==
    fill_generic(hardcoded_questions(category, difficulty), category, difficulty, count)

\* AIGenerator._generate_fallback_questions(category, difficulty, num_questions) on the
\* dict `bank` (self.fallback_questions): the set of the lists it can return, one for
\* each outcome of random.choice and random.sample
generate_fallback_questions(bank, category, difficulty, num_questions) ==
    IF category \notin DOMAIN bank /\ DOMAIN bank = {}
    THEN {create_fallback_questions(category, difficulty, num_questions)}
    ELSE IF category \in DOMAIN bank /\ difficulty \in DOMAIN bank[category]
    THEN LET available_questions == bank[category][difficulty]
         IN  IF Len(available_questions) <= num_questions
             THEN {available_questions}
             ELSE random_sample(available_questions, num_questions)
    ELSE UNION {
        IF difficulty \notin DOMAIN bank[c] /\ DOMAIN bank[c] = {}
        THEN {create_fallback_questions(c, difficulty, num_questions)}
        ELSE UNION {
            LET available_questions == bank[c][d]
            IN  IF Len(available_questions) <= num_questions
                THEN {available_questions}
                ELSE random_sample(available_questions, num_questions)
            : d \in IF difficulty \in DOMAIN bank[c] THEN {difficulty} ELSE DOMAIN bank[c]}
        : c \in IF category \in DOMAIN bank THEN {category} ELSE DOMAIN bank}

\* _create_guaranteed_questions without the cycle over the default questions
create_guaranteed_without_defaults(category, difficulty, count) ==
    LET available ==
            IF /\ category \in guaranteed_categories
               /\ difficulty \in guaranteed_difficulties(category)
            THEN guaranteed_questions(category, difficulty)
            ELSE <<>>
    IN  SubSeq(available, 1, IF count <= Len(available) THEN count ELSE Len(available))

\* AIGenerator._create_guaranteed_questions(category, difficulty, count)
create_guaranteed_questions(category, difficulty, count) ==
    LET available ==
            IF /\ category \in guaranteed_categories
               /\ difficulty \in guaranteed_difficulties(category)
            THEN guaranteed_questions(category, difficulty)
            ELSE <<>>
        taken == IF count <= Len(available) THEN count ELSE Len(available)
        result == SubSeq(available, 1, taken)
        needed == count - Len(result)
        defaults == default_questions(category, difficulty)
    IN  IF Len(result) < count
        THEN result \o [i \in 1..needed |->
                [defaults[((i - 1) % Len(defaults)) + 1]
                    EXCEPT !.category = category, !.difficulty = difficulty]]
        ELSE result

(***************************************************************************)
(* AIGenerator._generate_ai_questions                                      *)
(***************************************************************************)
max_retries == 3

\* the keys the validation requires of an emitted object
RequiredKeys == {"question", "options", "correct_answer", "category", "difficulty"}

\* the elements of a list
Range(x) == {x[i] : i \in 1..Len(x)}

\* f"Option {len(options) + 1}" appended while len(options) < 4
RECURSIVE pad_options(_)
pad_options(options) ==
    IF Len(options) >= 4 THEN options
    ELSE pad_options(Append(options, <<"O","p","t","i","o","n"," ">> \o str_int(Len(options) + 1)))

\* _create_prompt_for_category: which of the prompt templates it returns
create_prompt_for_category(category, simplified) ==
    IF simplified THEN "simplified"
    ELSE IF category = <<"G","e","o","g","r","a","p","h","y">> THEN "geography"
    ELSE IF category = <<"H","i","s","t","o","r","y">> THEN "history"
    ELSE IF category = <<"S","c","i","e","n","c","e">> THEN "science"
    ELSE "default"

\* the same loop without the repair of lines 1460-1461
RECURSIVE validate_without_repair(_, _, _, _)
validate_without_repair(generated_questions, k, questions, emitted) ==
    IF k > Len(generated_questions)
    THEN {[questions |-> questions, emitted |-> emitted, raised |-> FALSE]}
    ELSE LET q == generated_questions[k]
         IN  IF ~(RequiredKeys \subseteq q.keys)
             THEN validate_without_repair(generated_questions, k + 1, questions, emitted)
             ELSE UNION {
                validate_without_repair(generated_questions, k + 1,
                    Append(questions,
                           Q(q.question, o, q.correct_answer, q.category, q.difficulty)),
                    Append(emitted, q))
                : o \in random_shuffle(pad_options(q.options))}

\* The loop `for q in generated_questions` from its k-th object on, `questions` and the
\* history `emitted` being what the earlier objects left: the set of its outcomes, one
\* for each outcome of random.shuffle.  An object q is a record of the five values and
\* q.keys, the keys the parsed JSON object has.  raised: q["options"][0] = ... on an
\* empty list raises IndexError, which leaves the loop.
RECURSIVE validate_and_format(_, _, _, _)
validate_and_format(generated_questions, k, questions, emitted) ==
    IF k > Len(generated_questions)
    THEN {[questions |-> questions, emitted |-> emitted, raised |-> FALSE]}
    ELSE LET q == generated_questions[k]
             repaired == IF q.correct_answer \notin Range(q.options)
                         THEN [q.options EXCEPT ![1] = q.correct_answer]
                         ELSE q.options
         IN  IF ~(RequiredKeys \subseteq q.keys)
             THEN validate_and_format(generated_questions, k + 1, questions, emitted)
             ELSE IF q.correct_answer \notin Range(q.options) /\ Len(q.options) = 0
             THEN {[questions |-> questions, emitted |-> emitted, raised |-> TRUE]}
             ELSE UNION {
                validate_and_format(generated_questions, k + 1,
                    Append(questions,
                           Q(q.question, o, q.correct_answer, q.category, q.difficulty)),
                    Append(emitted, q))
                : o \in random_shuffle(pad_options(repaired))}

(***************************************************************************)
(* AIGenerator._fetch_questions_from_api                                   *)
(***************************************************************************)
\* the dict category_mapping: its keys
category_mapping_keys ==
    {<<"S","c","i","e","n","c","e">>, <<"H","i","s","t","o","r","y">>, <<"G","e","o","g","r","a","p","h","y">>, <<"L","i","t","e","r","a","t","u","r","e">>,
     <<"M","o","v","i","e","s">>, <<"S","p","o","r","t","s">>, <<"T","e","c","h","n","o","l","o","g","y">>, <<"M","u","s","i","c">>}

\* the keys of the dict params of the request
api_params(category, difficulty) ==
    {"amount", "type"}
        \cup (IF category \in category_mapping_keys THEN {"category"} ELSE {})
        \cup (IF difficulty \in {<<"e","a","s","y">>, <<"m","e","d","i","u","m">>, <<"h","a","r","d">>} THEN {"difficulty"} ELSE {})

\* html.unescape(s), for the character references &amp; &lt; &gt; &#039; (the inputs
\* drawn below hold no other "&")
Entities == <<
    <<<<"&","a","m","p",";">>, "&">>, <<<<"&","l","t",";">>, "<">>, <<<<"&","g","t",";">>, ">">>, <<<<"&","#","0","3","9",";">>, "'">> >>

RECURSIVE html_unescape(_)
html_unescape(s) ==
    IF s = <<>> THEN <<>>
    ELSE LET hits == {e \in 1..Len(Entities) :
                        /\ Len(Entities[e][1]) <= Len(s)
                        /\ SubSeq(s, 1, Len(Entities[e][1])) = Entities[e][1]}
         IN  IF hits # {}
             THEN LET e == CHOOSE e \in hits : TRUE
                  IN  <<Entities[e][2]>>
                        \o html_unescape(SubSeq(s, Len(Entities[e][1]) + 1, Len(s)))
             ELSE <<s[1]>> \o html_unescape(Tail(s))

\* The loop `for q in data["results"]` from its k-th result on: the set of the lists
\* `questions` it can build, one for each outcome of random.shuffle.
RECURSIVE api_convert(_, _, _, _, _)
api_convert(results, k, category, difficulty, questions) ==
    IF k > Len(results) THEN {questions}
    ELSE LET q == results[k]
             correct_answer == html_unescape(q.correct_answer)
             incorrect_answers ==
                [i \in 1..Len(q.incorrect_answers) |-> html_unescape(q.incorrect_answers[i])]
         IN  UNION {
                api_convert(results, k + 1, category, difficulty,
                    Append(questions,
                           Q(html_unescape(q.question), o, correct_answer,
                             category, difficulty)))
                : o \in random_shuffle(<<correct_answer>> \o incorrect_answers)}

\* The try block of _fetch_questions_from_api, given what urlopen and json.loads do:
\* response.kind is "ok" (a JSON object with response_code and results) or the
\* exception raised.  The outcomes: [raised |-> the exception or None, value |-> list].
api_try(category, difficulty, response) ==
    IF response.kind # "ok"
    THEN {[raised |-> response.kind, value |-> <<>>]}
    ELSE IF response.response_code = 0 /\ response.results # <<>>
    THEN {[raised |-> None, value |-> qs] :
            qs \in api_convert(response.results, 1, category, difficulty, <<>>)}
    ELSE {[raised |-> None, value |-> <<>>]}

\* no except clause: the exception leaves the function
api_except_missing(outcome) == outcome

\* the two except clauses: the second one catches every Exception
api_except(outcome) ==
    IF outcome.raised = None THEN outcome
    ELSE IF outcome.raised \in {"URLError", "HTTPError", "JSONDecodeError", "KeyError"}
    THEN [raised |-> None, value |-> <<>>]
    ELSE [raised |-> None, value |-> <<>>]

\* _fetch_questions_from_api(category, difficulty, num_questions): its outcomes
fetch_questions_from_api(category, difficulty, response) ==
    {api_except(o) : o \in api_try(category, difficulty, response)}

(***************************************************************************)
(* Bounds of the inputs                                                    *)
(***************************************************************************)
\* the largest num_questions of a call
MaxCount == 2
\* the most options of an object the model emits, and the most answers of an API result
MaxOptions == 5
\* the most objects of one emitted JSON array, and the most results of one API response,
\* for a direct call of the source
MaxBatch == 2
\* the same for a source that generate_questions calls
MaxStageBatch == 1

Min(a, b) == IF a <= b THEN a ELSE b

Paris == <<"W","h","a","t"," ","i","s"," ","t","h","e"," ","c","a","p","i","t","a","l"," ","o","f"," ","F","r","a","n","c","e","?">>
OptionNames == <<<<"P","a","r","i","s">>, <<"L","o","n","d","o","n">>, <<"B","e","r","l","i","n">>, <<"M","a","d","r","i","d">>, <<"R","o","m","e">>, <<"O","s","l","o">>, <<"B","e","r","n">>>>

\* an object of the JSON array the model emits
emitted_object(keys, question, options, correct_answer) ==
    [keys |-> keys, question |-> question, options |-> options,
     correct_answer |-> correct_answer, category |-> <<"G","e","o","g","r","a","p","h","y">>, difficulty |-> <<"e","a","s","y">>]

\* Emitted arrays for a direct call of _generate_ai_questions: one object with 0 to
\* MaxOptions options, its correct_answer among them ("Paris", when there is an option)
\* or not ("Lyon"), with all the keys or without "options"; and two-object arrays.
SourceObjects ==
    {emitted_object(keys, Paris, SubSeq(OptionNames, 1, n), correct_answer) :
        keys \in {RequiredKeys, RequiredKeys \ {"options"}},
        n \in 0..MaxOptions,
        correct_answer \in {<<"P","a","r","i","s">>, <<"L","y","o","n">>}}

SourceEmissions ==
    {<<>>} \cup {<<q>> : q \in SourceObjects}
    \cup (IF MaxBatch >= 2
          THEN {<<emitted_object(RequiredKeys, <<"W","h","a","t"," ","i","s"," ","t","h","e"," ","c","a","p","i","t","a","l"," ","o","f"," ","I","t","a","l","y","?">>,
                                 <<<<"R","o","m","e">>, <<"R","o","m","e">>, <<"R","o","m","e">>, <<"R","o","m","e">>>>, <<"R","o","m","e">>), q>> :
                   q \in {q \in SourceObjects : Len(q.options) <= 1}}
          ELSE {})

\* Emitted arrays when the executor runs _generate_ai_questions for generate_questions:
\* up to MaxBatch objects, each a real question or the echo of the prompt's example.
PipelineObjects ==
    {emitted_object(RequiredKeys, Paris,
                    <<<<"L","o","n","d","o","n">>, <<"L","o","n","d","o","n">>, <<"L","o","n","d","o","n">>, <<"L","o","n","d","o","n">>>>, <<"P","a","r","i","s">>),
     emitted_object(RequiredKeys, <<"S","a","m","p","l","e"," ","q","u","e","s","t","i","o","n"," ","a","b","o","u","t"," ","G","e","o","g","r","a","p","h","y","?">>,
                    <<<<"C","o","r","r","e","c","t"," ","a","n","s","w","e","r">>, <<"C","o","r","r","e","c","t"," ","a","n","s","w","e","r">>,
                      <<"C","o","r","r","e","c","t"," ","a","n","s","w","e","r">>, <<"C","o","r","r","e","c","t"," ","a","n","s","w","e","r">>>>, <<"C","o","r","r","e","c","t"," ","a","n","s","w","e","r">>)}

RECURSIVE SeqsUpTo(_, _)
SeqsUpTo(S, n) ==
    IF n = 0 THEN {<<>>}
    ELSE LET shorter == SeqsUpTo(S, n - 1)
         IN  shorter \cup {Append(x, e) : x \in {x \in shorter : Len(x) = n - 1}, e \in S}

PipelineEmissions == SeqsUpTo(PipelineObjects, MaxStageBatch)

Emissions(caller) == IF caller = "direct" THEN SourceEmissions ELSE PipelineEmissions

(***************************************************************************)
(* AIGenerator.__init__ and _load_local_model                              *)
(***************************************************************************)
max_model_loading_attempts == 3
fallback_models == <<"distilgpt2", "gpt2", "facebook/opt-125m">>

\* the threads of the screens: QuizScreen.start_quiz starts one on
\* _load_questions_thread, regenerate_category_questions one on do_regeneration
Threads == {"quiz", "regeneration"}

NotStarted == [pc |-> "idle", category |-> None, left |-> 0, attempt |-> 0]

\* __init__(use_fallback, model_name = None), the question banks apart; nobody has
\* called change_model and no screen has started a thread
InitModelWith(fallback, available) ==
    /\ use_fallback = fallback /\ transformers_available = available
    /\ local_model = None /\ tokenizer = None /\ generator = None
    /\ model_name = "distilgpt2"
    /\ model_loading_attempts = 0
    /\ IF ~use_fallback /\ transformers_available
       THEN is_model_ready = FALSE /\ load_pc = "load"
       ELSE is_model_ready = TRUE /\ load_pc = "done"
    /\ load_held = None
    /\ chg_pc = "idle" /\ chg_held = None /\ chg_args = None /\ chg_result = None
    /\ chg_before = None /\ chg_loads = 0 /\ chg_calls = 0
    /\ th = [t \in Threads |-> NotStarted]

InitModel ==
    \E c \in {<<TRUE, TRUE>>, <<FALSE, FALSE>>, <<FALSE, TRUE>>} : InitModelWith(c[1], c[2])

\* the fields of the generator _load_local_model and change_model read and write
ModelFields ==
    [is_model_ready |-> is_model_ready, local_model |-> local_model,
     tokenizer |-> tokenizer, generator |-> generator, model_name |-> model_name,
     model_loading_attempts |-> model_loading_attempts]

SetModelFields(f) ==
    /\ is_model_ready' = f.is_model_ready /\ local_model' = f.local_model
    /\ tokenizer' = f.tokenizer /\ generator' = f.generator
    /\ model_name' = f.model_name
    /\ model_loading_attempts' = f.model_loading_attempts

\* the except clause retrying whatever the number of attempts (up to a fourth)
load_except_retrying(f) ==
    IF f.model_loading_attempts < max_model_loading_attempts + 1
    THEN [pc |-> "load", held |-> None, fields |-> [f EXCEPT !.is_model_ready = FALSE]]
    ELSE [pc |-> "return", held |-> None, fields |-> [f EXCEPT !.is_model_ready = FALSE]]

\* the except clause of _load_local_model (lines 1050-1066), the fields being f: the
\* position the thread goes to, and the fields it leaves
load_except(f) ==
    IF f.model_loading_attempts < max_model_loading_attempts
    THEN [pc |-> "load", held |-> None,
          fields |-> [f EXCEPT !.is_model_ready = FALSE,
                               !.model_name = fallback_models[
                                   Min(f.model_loading_attempts, Len(fallback_models) - 1) + 1]]]
    ELSE [pc |-> "return", held |-> None, fields |-> [f EXCEPT !.is_model_ready = FALSE]]

\* the positions of a thread inside _load_local_model: entering an activation, and
\* inside each of the three slow calls of the try block
LoadPositions == {"load", "tokenizer", "local_model", "pipeline"}

\* One step of _load_local_model by a thread at position pc, the fields being f and
\* held the argument the running call was given: the set of the outcomes
\* [pc, held, fields].  A call is given self.model_name (pipeline(): self.local_model)
\* as it is when the call is made; it returns, its value is assigned and the next call
\* is made, or it raises and the except clause runs.
load_local_model(pc, held, f) ==
    IF pc = "load"
    THEN {[pc |-> "tokenizer", held |-> f.model_name,
           fields |-> [f EXCEPT !.model_loading_attempts = f.model_loading_attempts + 1]]}
    ELSE IF pc = "tokenizer"
    THEN {[pc |-> "local_model", held |-> f.model_name,
           fields |-> [f EXCEPT !.tokenizer = held]],
          load_except(f)}
    ELSE IF pc = "local_model"
    THEN {[pc |-> "pipeline", held |-> held,
           fields |-> [f EXCEPT !.local_model = held]],
          load_except(f)}
    ELSE {[pc |-> "return", held |-> None,
           fields |-> [f EXCEPT !.generator = held, !.is_model_ready = TRUE]],
          load_except(f)}

\* the steps of one activation from position pc on, no other thread touching the
\* fields: the outcomes at its end, where the thread returns or enters the recursive
\* activation
RECURSIVE load_activation(_, _, _)
load_activation(pc, held, f) ==
    UNION {IF r.pc \in {"load", "return"} THEN {r}
           ELSE load_activation(r.pc, r.held, r.fields)
           : r \in load_local_model(pc, held, f)}

\* One activation of _load_local_model on the loading thread while no other thread
\* touches the fields: the try block completes, or one of its three calls raises and the
\* except clause retries with the next fallback model (the recursive call is the next
\* activation) until max_model_loading_attempts.
LoadLocalModel ==
    /\ load_pc = "load"
    /\ \E r \in load_activation("load", None, ModelFields) :
        /\ SetModelFields(r.fields)
        /\ load_pc' = IF r.pc = "return" THEN "done" ELSE r.pc
    /\ UNCHANGED <<use_fallback, transformers_available, chgFrame, th, fallback_questions,
                   geography_questions, aiFrame, apiFrame, gqFrame, fFrame, qmFrame>>

(***************************************************************************)
(* _generate_ai_questions as a process                                     *)
(***************************************************************************)
AiIdle ==
    /\ ai_pc = "idle" /\ ai_caller = None /\ ai_args = None /\ ai_attempt = 0
    /\ ai_prompt = None /\ ai_questions = <<>> /\ ai_emitted = <<>> /\ ai_result = None
    /\ ai_log = <<>>

\* the frame of the call is dropped
AiReset ==
    /\ ai_pc' = "idle" /\ ai_caller' = None /\ ai_args' = None /\ ai_attempt' = 0
    /\ ai_prompt' = None /\ ai_questions' = <<>> /\ ai_emitted' = <<>> /\ ai_result' = None
    /\ ai_log' = <<>>

\* the call is made: by `caller`, with `args`
AiCalled(caller, args) ==
    /\ ai_pc = "idle"
    /\ ai_pc' = "called" /\ ai_caller' = caller /\ ai_args' = args
    /\ UNCHANGED <<ai_attempt, ai_prompt, ai_questions, ai_emitted, ai_log, ai_result>>

\* _generate_ai_questions without the check of lines 1423-1425
AiBeginUnchecked ==
    /\ ai_pc = "called"
    /\ ai_pc' = "attempt" /\ ai_attempt' = 1
    /\ ai_prompt' = create_prompt_for_category(ai_args.category, FALSE)
    /\ UNCHANGED ai_result
    /\ UNCHANGED <<ai_caller, ai_args, ai_questions, ai_emitted, ai_log>>
    /\ UNCHANGED <<aiFields, apiFrame, gqFrame, fFrame, qmFrame>>

\* lines 1423-1432: the readiness check, and the first prompt
AiBegin ==
    /\ ai_pc = "called"
    /\ IF ~is_model_ready \/ generator = None
       THEN /\ ai_pc' = "returned" /\ ai_result' = <<>>
            /\ UNCHANGED <<ai_attempt, ai_prompt>>
       ELSE /\ ai_pc' = "attempt" /\ ai_attempt' = 1
            /\ ai_prompt' = create_prompt_for_category(ai_args.category, FALSE)
            /\ UNCHANGED ai_result
    /\ UNCHANGED <<ai_caller, ai_args, ai_questions, ai_emitted, ai_log>>
    /\ UNCHANGED <<aiFields, apiFrame, gqFrame, fFrame, qmFrame>>

\* the end of an iteration that returned nothing: the next one, or `return []`
AiNextAttempt(new_prompt) ==
    IF ai_attempt < max_retries
    THEN /\ ai_attempt' = ai_attempt + 1 /\ ai_prompt' = new_prompt
         /\ UNCHANGED <<ai_pc, ai_result>>
    ELSE /\ ai_pc' = "returned" /\ ai_result' = <<>>
         /\ UNCHANGED <<ai_attempt, ai_prompt>>

\* "No valid questions generated": the prompt is rebuilt with simplified=(attempt > 1)
AiNoValidQuestions ==
    AiNextAttempt(create_prompt_for_category(ai_args.category, ai_attempt > 1))

\* the entry of the history for the iteration that ends
Logged(outcome, appended) ==
    Append(ai_log, [attempt |-> ai_attempt, prompt |-> ai_prompt, outcome |-> outcome,
                    appended |-> appended])

\* One iteration of the for loop: the generator raises; or the text it generates holds
\* no JSON array, or one json.loads rejects; or the array is parsed and validated.
AiAttempt ==
    /\ ai_pc = "attempt"
    /\ \/ /\ AiNextAttempt(ai_prompt)
          /\ ai_log' = Logged("generator raised", 0)
          /\ UNCHANGED <<ai_questions, ai_emitted>>
       \/ /\ AiNoValidQuestions
          /\ ai_log' = Logged("no array", 0)
          /\ UNCHANGED <<ai_questions, ai_emitted>>
       \/ \E generated_questions \in Emissions(ai_caller) :
          \E r \in validate_and_format(generated_questions, 1, ai_questions, ai_emitted) :
            /\ ai_questions' = r.questions
            /\ ai_emitted' = r.emitted
            /\ ai_log' = Logged(IF r.raised THEN "validation raised" ELSE "validated",
                                Len(r.questions) - Len(ai_questions))
            /\ IF r.raised THEN AiNextAttempt(ai_prompt)
               ELSE IF r.questions # <<>>
               THEN /\ ai_pc' = "returned" /\ ai_result' = r.questions
                    /\ UNCHANGED <<ai_attempt, ai_prompt>>
               ELSE AiNoValidQuestions
    /\ UNCHANGED <<ai_caller, ai_args>>
    /\ UNCHANGED <<aiFields, apiFrame, gqFrame, fFrame, qmFrame>>

\* the caller takes the list a direct call returned
AiReturn ==
    /\ ai_pc = "returned" /\ ai_caller = "direct"
    /\ AiReset
    /\ UNCHANGED <<aiFields, apiFrame, gqFrame, fFrame, qmFrame>>

(***************************************************************************)
(* The question banks __init__ loads                                       *)
(***************************************************************************)
Geography == <<"G","e","o","g","r","a","p","h","y">>
Movies == <<"M","o","v","i","e","s">>
History == <<"H","i","s","t","o","r","y">>
easy == <<"e","a","s","y">>
medium == <<"m","e","d","i","u","m">>
hard == <<"h","a","r","d">>

\* the categories _load_fallback_questions builds lists for
categories ==
    <<<<"S","c","i","e","n","c","e">>, <<"H","i","s","t","o","r","y">>, <<"G","e","o","g","r","a","p","h","y">>, <<"L","i","t","e","r","a","t","u","r","e">>,
      <<"M","o","v","i","e","s">>, <<"S","p","o","r","t","s">>, <<"T","e","c","h","n","o","l","o","g","y">>, <<"M","u","s","i","c">>>>

\* A file of the data directory: it is there or not; reading it gives its JSON content,
\* or raises (open or json.load fails, or the content is not the dict of lists the reader
\* walks through)
File(content) == [exists |-> TRUE, readable |-> TRUE, content |-> content]
NoFile == [exists |-> FALSE, readable |-> FALSE, content |-> <<>>]
Unreadable == [exists |-> TRUE, readable |-> FALSE, content |-> <<>>]

\* _load_fallback_questions: the content of data/fallback_questions.json when the file
\* is there and can be read, the built-in lists otherwise
load_fallback_questions(file) ==
    IF file.exists /\ file.readable THEN file.content
    ELSE [c \in Range(categories) |->
            [d \in {easy, medium, hard} |-> create_fallback_questions(c, d, 10)]]

\* _load_geography_questions: the content of data/geography_questions.json when the
\* file is there and can be read, the Geography lists of the fallback bank otherwise
load_geography_questions(file, bank) ==
    IF file.exists /\ file.readable THEN file.content
    ELSE IF Geography \in DOMAIN bank THEN bank[Geography]
    ELSE [d \in {easy, medium, hard} |-> <<>>]

\* records the files below hold
FranceQuestion ==
    Q(Paris, <<<<"P","a","r","i","s">>, <<"L","o","n","d","o","n">>, <<"B","e","r","l","i","n">>, <<"M","a","d","r","i","d">>>>, <<"P","a","r","i","s">>, Geography, easy)
NileQuestion ==
    Q(<<"W","h","i","c","h"," ","r","i","v","e","r"," ","i","s"," ","t","h","e"," ","l","o","n","g","e","s","t"," ","i","n"," ","t","h","e"," ","w","o","r","l","d","?">>,
      <<<<"N","i","l","e">>, <<"A","m","a","z","o","n">>, <<"Y","a","n","g","t","z","e">>, <<"D","a","n","u","b","e">>>>, <<"N","i","l","e">>, Geography, easy)
SampleQuestion ==
    Q(<<"S","a","m","p","l","e"," ","e","a","s","y"," ","q","u","e","s","t","i","o","n"," ","#","3">>,
      <<<<"C","o","r","r","e","c","t"," ","a","n","s","w","e","r"," ","#","1">>, <<"W","r","o","n","g"," ","a","n","s","w","e","r"," ","#","1">>, <<"W","r","o","n","g"," ","a","n","s","w","e","r"," ","#","2">>, <<"W","r","o","n","g"," ","a","n","s","w","e","r"," ","#","3">>>>,
      <<"C","o","r","r","e","c","t"," ","a","n","s","w","e","r"," ","#","1">>, Geography, easy)
TitanicQuestion ==
    Q(<<"W","h","o"," ","d","i","r","e","c","t","e","d"," ","t","h","e"," ","m","o","v","i","e"," ","T","i","t","a","n","i","c","?">>,
      <<<<"J","a","m","e","s"," ","C","a","m","e","r","o","n">>, <<"S","t","e","v","e","n"," ","S","p","i","e","l","b","e","r","g">>, <<"P","e","t","e","r"," ","J","a","c","k","s","o","n">>, <<"R","i","d","l","e","y"," ","S","c","o","t","t">>>>,
      <<"J","a","m","e","s"," ","C","a","m","e","r","o","n">>, Movies, easy)

\* Contents of data/fallback_questions.json: an empty object; and a bank with a good
\* and a placeholder record, an empty list, a list longer than the requests, a category
\* without difficulties, and no entry for the other categories and difficulties.
FallbackFiles ==
    { File(<<>>),
      File((Geography :> (easy :> <<FranceQuestion, SampleQuestion>> @@ medium :> <<>>))
        @@ (Movies :> (easy :> <<TitanicQuestion, generic_q(Movies, easy, 0),
                                 generic_q(Movies, easy, 1), generic_q(Movies, easy, 2)>>))
        @@ (History :> <<>>)) }

\* Contents of data/geography_questions.json: no file; and a file without "hard"
GeographyFiles ==
    { NoFile, File(easy :> <<FranceQuestion, NileQuestion>> @@ medium :> <<>>) }

\* the data directory when __init__ runs: the two files
DataDirectories ==
    {d \in FallbackFiles \X GeographyFiles : d[1].content # <<>> \/ ~d[2].exists}

InitBanks ==
    \E d \in DataDirectories :
        /\ fallback_questions = load_fallback_questions(d[1])
        /\ geography_questions = load_geography_questions(d[2], fallback_questions)

(***************************************************************************)
(* generate_questions                                                      *)
(***************************************************************************)
\* the category and difficulty of the calls: a category with a model stage, one
\* without, one no table knows; two known difficulties and an unknown one
CallArguments ==
    {<<Geography, easy>>, <<Geography, <<"e","x","t","r","e","m","e">>>>, <<Movies, easy>>, <<<<"C","o","o","k","i","n","g">>, medium>>}

\* What urlopen and json.loads do for the API stage: they raise, or the JSON object
\* lacks a key, or it carries results (a real question, a placeholder).
ApiFailures ==
    {[kind |-> k] : k \in {"URLError", "timeout"}}
ApiResult(question, correct_answer, incorrect_answers) ==
    [question |-> question, correct_answer |-> correct_answer,
     incorrect_answers |-> incorrect_answers]
ApiOk(response_code, results) ==
    [kind |-> "ok", response_code |-> response_code, results |-> results]
KangarooResult ==
    ApiResult(<<"W","h","i","c","h"," ","c","o","u","n","t","r","y"," ","i","s"," ","h","o","m","e"," ","t","o"," ","t","h","e"," ","k","a","n","g","a","r","o","o","?">>, <<"A","u","s","t","r","a","l","i","a">>, <<<<"A","u","s","t","r","i","a">>>>)
StageResults ==
    {KangarooResult, ApiResult(<<"S","a","m","p","l","e"," ","q","u","e","s","t","i","o","n"," ","#","1","?">>, <<"C","o","r","r","e","c","t"," ","a","n","s","w","e","r">>, <<>>)}
\* the last one: a response with more results than a request for one question asks for
StageResponses ==
    ApiFailures \cup {ApiOk(1, <<>>)}
        \cup {ApiOk(0, results) : results \in SeqsUpTo(StageResults, MaxStageBatch)}
        \cup {ApiOk(0, [i \in 1..(MaxStageBatch + 1) |-> KangarooResult])}

\* how the API stage ended, for the history
api_outcome(response) ==
    IF response.kind # "ok" THEN response.kind
    ELSE IF response.response_code # 0 THEN "response_code"
    ELSE "ok"

\* the records of a dict of lists, and of a dict of such dicts
records_of_lists(lists) == UNION {Range(lists[d]) : d \in DOMAIN lists}
records_of_bank(bank) == UNION {records_of_lists(bank[c]) : c \in DOMAIN bank}

\* the records the stages can bring, for these banks, sources and arguments
KnownQuestions ==
    UNION {records_of_bank(load_fallback_questions(d[1]))
            \cup records_of_lists(
                    load_geography_questions(d[2], load_fallback_questions(d[1])))
           : d \in DataDirectories}
    \cup UNION {Range(create_fallback_questions(a[1], a[2], 3 * MaxCount))
                    \cup Range(create_fallback_questions(History, a[2], 3 * MaxCount))
                : a \in CallArguments}
    \cup UNION {Range(create_guaranteed_questions(a[1], a[2], MaxCount))
                : a \in CallArguments}
    \cup Range(create_fallback_questions(<<"S","c","i","e","n","c","e">>, easy, 10))
    \cup UNION {Range(o.value)
                : o \in UNION {fetch_questions_from_api(a[1], a[2], response)
                               : a \in CallArguments, response \in StageResponses}}
    \cup UNION {Range(r.questions)
                : r \in UNION {validate_and_format(g, 1, <<>>, <<>>)
                               : g \in PipelineEmissions}}

\* is_sample of each of them, computed once
is_sample_known == [q \in KnownQuestions |-> is_sample(q)]

\* the same loop with insert(0, q) in the place of append(q)
RECURSIVE filter_prepending(_)
filter_prepending(questions) ==
    IF questions = <<>> THEN <<>>
    ELSE LET q == Head(questions)
             rest == filter_prepending(Tail(questions))
         IN  IF (IF q \in KnownQuestions THEN is_sample_known[q] ELSE is_sample(q))
             THEN rest ELSE Append(rest, q)

\* AIGenerator._filter_sample_questions(questions)
filter_sample_questions(questions) ==
    SelectSeq(questions,
              LAMBDA q : ~(IF q \in KnownQuestions THEN is_sample_known[q] ELSE is_sample(q)))

GenIdle ==
    /\ gq_pc = "idle" /\ gq_args = None /\ gq_questions = <<>> /\ gq_filtered = <<>>
    /\ gq_result = None /\ gq_trace = <<>> /\ gq_checked = None

GenReset ==
    /\ gq_pc' = "idle" /\ gq_args' = None /\ gq_questions' = <<>> /\ gq_filtered' = <<>>
    /\ gq_result' = None /\ gq_trace' = <<>> /\ gq_checked' = None

\* an entry of the history: the stage entered, the length of the list it found, the
\* number of records it added, and how it ended
Stage(name, before, added, outcome) ==
    [stage |-> name, before |-> before, added |-> added, outcome |-> outcome]

\* the last entry of the history replaced
Ended(trace, added, outcome) ==
    [trace EXCEPT ![Len(trace)] = [@ EXCEPT !.added = added, !.outcome = outcome]]

\* generate_questions(category, difficulty, num_questions) is called
GenerateQuestions(category, difficulty, num_questions) ==
    /\ gq_pc = "idle"
    /\ gq_pc' = "model"
    /\ gq_args' = [category |-> category, difficulty |-> difficulty,
                   num_questions |-> num_questions]
    /\ UNCHANGED <<gq_questions, gq_filtered, gq_result, gq_trace, gq_checked>>
    /\ UNCHANGED <<aiFields, aiFrame, apiFrame, fFrame, qmFrame>>

\* lines 1237-1247: the tests, and the submission of _generate_ai_questions
ModelStage ==
    /\ gq_pc = "model"
    /\ gq_checked' = [use_fallback |-> use_fallback, is_model_ready |-> is_model_ready]
    /\ IF gq_args.category = Geography /\ ~use_fallback /\ is_model_ready
       THEN /\ AiCalled("executor", gq_args)
            /\ gq_pc' = "await"
            /\ gq_trace' = Append(gq_trace, Stage("model", 0, 0, "pending"))
       ELSE /\ gq_pc' = "api"
            /\ UNCHANGED <<aiFrame, gq_trace>>
    /\ UNCHANGED <<gq_args, gq_questions, gq_filtered, gq_result>>
    /\ UNCHANGED <<aiFields, apiFrame, fFrame, qmFrame>>

\* line 1248: future.result returns what the worker returned within max_wait_time
AwaitResult ==
    /\ gq_pc = "await" /\ ai_pc = "returned"
    /\ gq_questions' = ai_result
    /\ gq_trace' = Ended(gq_trace, Len(ai_result), "ok")
    /\ gq_pc' = "api"
    /\ AiReset
    /\ UNCHANGED <<gq_args, gq_filtered, gq_result, gq_checked>>
    /\ UNCHANGED <<aiFields, apiFrame, fFrame, qmFrame>>

\* line 1248: max_wait_time passes with the worker still running; future.result raises
\* TimeoutError, which leaves the with block through the executor's __exit__
AwaitTimeout ==
    /\ gq_pc = "await" /\ ai_pc # "returned"
    /\ gq_pc' = "shutdown"
    /\ UNCHANGED <<gq_args, gq_questions, gq_filtered, gq_result, gq_trace, gq_checked>>
    /\ UNCHANGED <<aiFields, aiFrame, apiFrame, fFrame, qmFrame>>

\* ThreadPoolExecutor.__exit__ is shutdown(wait=True): it returns when the worker has
\* finished; then the except clause of lines 1251-1253 sets questions = []
ExecutorShutdown ==
    /\ gq_pc = "shutdown" /\ ai_pc = "returned"
    /\ gq_questions' = <<>>
    /\ gq_trace' = Ended(gq_trace, 0, "timeout")
    /\ gq_pc' = "api"
    /\ AiReset
    /\ UNCHANGED <<gq_args, gq_filtered, gq_result, gq_checked>>
    /\ UNCHANGED <<aiFields, apiFrame, fFrame, qmFrame>>

\* the API stage without the test of line 1256
ApiStageUnguarded ==
    /\ gq_pc = "api"
    /\ \E response \in StageResponses :
       \E o \in fetch_questions_from_api(gq_args.category, gq_args.difficulty, response) :
            /\ gq_pc' = "curated"
            /\ gq_questions' = gq_questions \o o.value
            /\ gq_trace' = Append(gq_trace,
                    Stage("api", Len(gq_questions), Len(o.value), api_outcome(response)))
    /\ UNCHANGED <<gq_args, gq_filtered, gq_result, gq_checked>>
    /\ UNCHANGED <<aiFields, aiFrame, apiFrame, fFrame, qmFrame>>

\* lines 1256-1262
ApiStage ==
    /\ gq_pc = "api"
    /\ IF Len(gq_questions) < gq_args.num_questions
       THEN \E response \in StageResponses :
            \E o \in fetch_questions_from_api(gq_args.category, gq_args.difficulty, response) :
                IF o.raised # None
                THEN /\ gq_pc' = "raised"
                     /\ gq_trace' = Append(gq_trace,
                            Stage("api", Len(gq_questions), 0, "raised"))
                     /\ UNCHANGED gq_questions
                ELSE /\ gq_pc' = "curated"
                     /\ gq_questions' = gq_questions \o o.value
                     /\ gq_trace' = Append(gq_trace,
                            Stage("api", Len(gq_questions), Len(o.value),
                                  api_outcome(response)))
       ELSE /\ gq_pc' = "curated"
            /\ UNCHANGED <<gq_questions, gq_trace>>
    /\ UNCHANGED <<gq_args, gq_filtered, gq_result, gq_checked>>
    /\ UNCHANGED <<aiFields, aiFrame, apiFrame, fFrame, qmFrame>>

\* lines 1265-1275: what the curated set adds, one list for each outcome of random.sample
curated_questions(curated, difficulty, questions, needed) ==
    IF difficulty \in DOMAIN curated /\ curated[difficulty] # <<>>
    THEN LET available == curated[difficulty]
             available_filtered == SelectSeq(available, LAMBDA q : q \notin Range(questions))
         IN  IF available_filtered # <<>>
             THEN random_sample(available_filtered, Min(needed, Len(available_filtered)))
             ELSE {<<>>}
    ELSE {<<>>}

CuratedStage ==
    /\ gq_pc = "curated"
    /\ gq_pc' = "fallback"
    /\ IF gq_args.category = Geography /\ Len(gq_questions) < gq_args.num_questions
       THEN \E backup_questions \in
                    curated_questions(geography_questions, gq_args.difficulty, gq_questions,
                                      gq_args.num_questions - Len(gq_questions)) :
                /\ gq_questions' = gq_questions \o backup_questions
                /\ gq_trace' = Append(gq_trace,
                        Stage("curated", Len(gq_questions), Len(backup_questions), "ok"))
       ELSE UNCHANGED <<gq_questions, gq_trace>>
    /\ UNCHANGED <<gq_args, gq_filtered, gq_result, gq_checked>>
    /\ UNCHANGED <<aiFields, aiFrame, apiFrame, fFrame, qmFrame>>

\* lines 1278-1282
FallbackStage ==
    /\ gq_pc = "fallback"
    /\ gq_pc' = "filter"
    /\ IF Len(gq_questions) < gq_args.num_questions
       THEN \E fallback \in
                    generate_fallback_questions(fallback_questions, gq_args.category,
                        gq_args.difficulty, gq_args.num_questions - Len(gq_questions)) :
                /\ gq_questions' = gq_questions \o fallback
                /\ gq_trace' = Append(gq_trace,
                        Stage("fallback", Len(gq_questions), Len(fallback), "ok"))
       ELSE UNCHANGED <<gq_questions, gq_trace>>
    /\ UNCHANGED <<gq_args, gq_filtered, gq_result, gq_checked>>
    /\ UNCHANGED <<aiFields, aiFrame, apiFrame, fFrame, qmFrame>>

\* line 1285
FilterStage ==
    /\ gq_pc = "filter"
    /\ gq_pc' = "refill"
    /\ gq_filtered' = filter_sample_questions(gq_questions)
    /\ gq_trace' = Append(gq_trace, Stage("filter", Len(gq_questions), 0, "ok"))
    /\ UNCHANGED <<gq_args, gq_questions, gq_result, gq_checked>>
    /\ UNCHANGED <<aiFields, aiFrame, apiFrame, fFrame, qmFrame>>

\* the refill without its filter
refill_unfiltered(more_questions, needed) ==
    SubSeq(more_questions, 1, Min(needed, Len(more_questions)))

\* lines 1295-1299: what the refill appends to filtered_questions
refill(more_questions, needed) ==
    LET more_filtered == filter_sample_questions(more_questions)
    IN  SubSeq(more_filtered, 1, Min(needed, Len(more_filtered)))

\* lines 1289-1299; the guaranteed stage is inside this if
RefillStage ==
    /\ gq_pc = "refill"
    /\ IF Len(gq_filtered) < gq_args.num_questions
       THEN LET needed == gq_args.num_questions - Len(gq_filtered)
            IN  \E more_questions \in
                        generate_fallback_questions(fallback_questions, gq_args.category,
                                                    gq_args.difficulty, needed * 3) :
                    LET more == refill(more_questions, needed)
                    IN  /\ gq_filtered' = gq_filtered \o more
                        /\ gq_trace' = Append(gq_trace,
                                Stage("refill", Len(gq_filtered), Len(more), "ok"))
                        /\ gq_pc' = "guaranteed"
       ELSE /\ gq_pc' = "return"
            /\ UNCHANGED <<gq_filtered, gq_trace>>
    /\ UNCHANGED <<gq_args, gq_questions, gq_result, gq_checked>>
    /\ UNCHANGED <<aiFields, aiFrame, apiFrame, fFrame, qmFrame>>

\* lines 1302-1309
GuaranteedStage ==
    /\ gq_pc = "guaranteed"
    /\ gq_pc' = "return"
    /\ IF Len(gq_filtered) < gq_args.num_questions
       THEN LET real_questions ==
                    create_guaranteed_questions(gq_args.category, gq_args.difficulty,
                                                gq_args.num_questions - Len(gq_filtered))
            IN  /\ gq_filtered' = gq_filtered \o real_questions
                /\ gq_trace' = Append(gq_trace,
                        Stage("guaranteed", Len(gq_filtered), Len(real_questions), "ok"))
       ELSE UNCHANGED <<gq_filtered, gq_trace>>
    /\ UNCHANGED <<gq_args, gq_questions, gq_result, gq_checked>>
    /\ UNCHANGED <<aiFields, aiFrame, apiFrame, fFrame, qmFrame>>

\* line 1312: return filtered_questions[:num_questions]
GenerateReturn ==
    /\ gq_pc = "return"
    /\ gq_pc' = "returned"
    /\ gq_result' = SubSeq(gq_filtered, 1, Min(gq_args.num_questions, Len(gq_filtered)))
    /\ UNCHANGED <<gq_args, gq_questions, gq_filtered, gq_trace, gq_checked>>
    /\ UNCHANGED <<aiFields, aiFrame, apiFrame, fFrame, qmFrame>>

\* the caller takes the list
GenerateDone ==
    /\ gq_pc = "returned"
    /\ GenReset
    /\ UNCHANGED <<aiFields, aiFrame, apiFrame, fFrame, qmFrame>>

\* get_questions is not running
QmIdle ==
    /\ qm_pc = "idle" /\ qm_args = None /\ qm_unseen = <<>> /\ qm_seen = <<>>
    /\ qm_alias = FALSE /\ qm_result = None /\ qm_before = None
    /\ qm_new = <<>> /\ qm_held = None

\* no store or history operation is running
StoresIdle ==
    st_pc = "idle" /\ st_call = None /\ st_result = None /\ st_marked = {} /\ st_calls = 0

\* no QuestionManager is constructed
NoManager ==
    /\ qm_questions = <<>> /\ qm_file = NoFile /\ cm_store = <<>> /\ cm_files = <<>>
    /\ uh_user = None /\ uh_seen = <<>> /\ uh_file = NoFile
    /\ QmIdle /\ qm_calls = 0 /\ StoresIdle

ApiIdle == api_pc = "idle" /\ api_args = None /\ api_response = None /\ api_result = None
FilterIdle == f_pc = "idle" /\ f_questions = <<>> /\ f_result = None

(***************************************************************************)
(* The generator: __init__, the loader thread, and calls of                *)
(* generate_questions                                                      *)
(***************************************************************************)
Init ==
    /\ InitModel /\ InitBanks
    /\ AiIdle /\ ApiIdle /\ GenIdle /\ FilterIdle /\ NoManager

Next ==
    \/ LoadLocalModel
    \/ \E a \in CallArguments, num_questions \in 1..MaxCount :
            GenerateQuestions(a[1], a[2], num_questions)
    \/ ModelStage
    \/ AiBegin
    \/ AiAttempt
    \/ AwaitResult
    \/ AwaitTimeout
    \/ ExecutorShutdown
    \/ ApiStage
    \/ CuratedStage
    \/ FallbackStage
    \/ FilterStage
    \/ RefillStage
    \/ GuaranteedStage
    \/ GenerateReturn
    \/ GenerateDone

Spec == Init /\ [][Next]_vars

(***************************************************************************)
(* generate_questions without data files                                   *)
(***************************************************************************)
\* The generator constructed in fallback mode in a data directory without files: the
\* bank is the built-in one, ten records for each category and difficulty
InitOffline ==
    /\ InitModelWith(TRUE, FALSE)
    /\ fallback_questions = load_fallback_questions(NoFile)
    /\ geography_questions = load_geography_questions(NoFile, fallback_questions)
    /\ AiIdle /\ ApiIdle /\ GenIdle /\ FilterIdle /\ NoManager

\* the calls are made while the network is down: the request of the API stage raises
\* URLError and the stage leaves the list as it found it.  The guaranteed stage is
\* inside the if of the refill, which these calls do not enter (the filter leaves five).
NextOffline ==
    \/ GenerateQuestions(<<"S","c","i","e","n","c","e">>, easy, 5)
    \/ ModelStage
    \/ ApiStage /\ gq_trace'[Len(gq_trace')].outcome = "URLError"
    \/ CuratedStage
    \/ FallbackStage
    \/ FilterStage
    \/ RefillStage
    \/ GenerateReturn
    \/ GenerateDone

SpecOffline == InitOffline /\ [][NextOffline]_vars

(***************************************************************************)
(* The two remote sources, called one call at a time                       *)
(***************************************************************************)
\* What urlopen and json.loads do for a direct call: they raise, or the JSON object
\* reports no results, or it carries one result with 0 to MaxOptions - 1 incorrect
\* answers and character references in its texts, or two results.
IncorrectAnswers ==
    <<<<"R","o","c","k"," ","&","a","m","p",";"," ","R","o","l","l">>, <<"&","#","0","3","9",";","B","l","u","e","s","&","#","0","3","9",";">>, <<"J","a","z","z">>, <<"F","o","l","k">>, <<"S","o","u","l">>, <<"F","u","n","k">>>>
SourceResult(n) ==
    ApiResult(<<"W","h","i","c","h"," ","s","t","y","l","e"," ","i","s"," ","&","l","t",";","o","l","d","e","r","&","g","t",";",":"," ","R","a","g","t","i","m","e"," ","&","a","m","p",";"," ","w","h","a","t","?">>, <<"R","&","a","m","p",";","B">>,
              SubSeq(IncorrectAnswers, 1, n))
SourceResponses ==
    ApiFailures \cup {ApiOk(1, <<>>), ApiOk(0, <<>>)}
        \cup {ApiOk(0, <<SourceResult(n)>>) : n \in 0..(MaxOptions - 1)}
        \cup (IF MaxBatch >= 2 THEN {ApiOk(0, <<SourceResult(1), SourceResult(0)>>)} ELSE {})

\* the category and difficulty of the direct calls
SourceArguments == {<<Geography, easy>>, <<<<"C","o","o","k","i","n","g">>, <<"e","x","t","r","e","m","e">>>>}

\* _generate_ai_questions(category, difficulty, num_questions) is called
AiCall ==
    /\ api_pc = "idle" /\ gq_pc = "idle"
    /\ \E a \in SourceArguments :
            AiCalled("direct", [category |-> a[1], difficulty |-> a[2],
                                num_questions |-> MaxCount])
    /\ UNCHANGED <<aiFields, apiFrame, gqFrame, fFrame, qmFrame>>

\* _fetch_questions_from_api(category, difficulty, num_questions), the whole call
ApiCall ==
    /\ api_pc = "idle" /\ ai_pc = "idle" /\ gq_pc = "idle"
    /\ \E a \in SourceArguments, response \in SourceResponses :
       \E o \in fetch_questions_from_api(a[1], a[2], response) :
            /\ api_pc' = IF o.raised = None THEN "returned" ELSE "raised"
            /\ api_args' = [category |-> a[1], difficulty |-> a[2],
                            num_questions |-> MaxCount]
            /\ api_response' = response
            /\ api_result' = o.value
    /\ UNCHANGED <<aiFields, aiFrame, gqFrame, fFrame, qmFrame>>

\* the caller takes the list
ApiReturn ==
    /\ api_pc = "returned"
    /\ api_pc' = "idle" /\ api_args' = None /\ api_response' = None /\ api_result' = None
    /\ UNCHANGED <<aiFields, aiFrame, gqFrame, fFrame, qmFrame>>

InitSources ==
    /\ InitModel
    /\ fallback_questions = load_fallback_questions(File(<<>>))
    /\ geography_questions = load_geography_questions(NoFile, fallback_questions)
    /\ AiIdle /\ ApiIdle /\ GenIdle /\ FilterIdle /\ NoManager

NextSources ==
    \/ LoadLocalModel
    \/ AiCall
    \/ AiBegin
    \/ AiAttempt
    \/ AiReturn
    \/ ApiCall
    \/ ApiReturn

SpecSources == InitSources /\ [][NextSources]_vars

(***************************************************************************)
(* change_model on the thread of the settings dialog, beside the loading   *)
(* thread of __init__                                                      *)
(***************************************************************************)
\* the calls of change_model made
MaxChanges == 2

\* two of the names the settings dialog passes
ModelNames == {"distilgpt2", "gpt2"}

otherThanModel ==
    <<use_fallback, transformers_available, fallback_questions, geography_questions,
      th, aiFrame, apiFrame, gqFrame, fFrame, qmFrame>>

\* the loading thread of __init__ takes one step of _load_local_model
LoaderStep ==
    /\ load_pc \in LoadPositions
    /\ \E r \in load_local_model(load_pc, load_held, ModelFields) :
        /\ SetModelFields(r.fields)
        /\ load_held' = r.held
        /\ load_pc' = IF r.pc = "return" THEN "done" ELSE r.pc
    /\ UNCHANGED <<chg_pc, chg_held, chg_args, chg_result, chg_before, chg_loads,
                   chg_calls, otherThanModel>>

\* lines 1836-1858: the state is reset and the three handles are released
change_model_reset(f, new_model_name) ==
    [f EXCEPT !.is_model_ready = FALSE, !.model_name = new_model_name,
              !.local_model = None, !.tokenizer = None, !.generator = None]

\* change_model without the test of the name of lines 1832-1834
ChangeModelAlways(new_model_name) ==
    /\ chg_pc \in {"idle", "returned"} /\ chg_calls < MaxChanges
    /\ chg_calls' = chg_calls + 1
    /\ chg_args' = new_model_name
    /\ chg_before' = ModelFields @@ [load_pc |-> load_pc]
    /\ chg_loads' = 0
    /\ chg_pc' = "start" /\ chg_result' = None
    /\ SetModelFields(change_model_reset(ModelFields, new_model_name))
    /\ UNCHANGED <<load_pc, load_held, chg_held, otherThanModel>>

\* change_model(new_model_name) is called, lines 1832-1858: the test of the name,
\* and for another name the reset
ChangeModel(new_model_name) ==
    /\ chg_pc \in {"idle", "returned"} /\ chg_calls < MaxChanges
    /\ chg_calls' = chg_calls + 1
    /\ chg_args' = new_model_name
    /\ chg_before' = ModelFields @@ [load_pc |-> load_pc]
    /\ chg_loads' = 0
    /\ IF new_model_name = model_name
       THEN /\ chg_pc' = "returned" /\ chg_result' = TRUE
            /\ SetModelFields(ModelFields)
       ELSE /\ chg_pc' = "start" /\ chg_result' = None
            /\ SetModelFields(change_model_reset(ModelFields, new_model_name))
    /\ UNCHANGED <<load_pc, load_held, chg_held, otherThanModel>>

\* lines 1860-1873: the counter is reset and _load_local_model is called; or, the
\* model being disabled or the library missing, the flag is set
ChangeStart ==
    /\ chg_pc = "start"
    /\ IF transformers_available /\ ~use_fallback
       THEN /\ model_loading_attempts' = 0
            /\ chg_pc' = "load"
            /\ UNCHANGED <<is_model_ready, chg_result>>
       ELSE /\ is_model_ready' = TRUE
            /\ chg_pc' = "returned" /\ chg_result' = TRUE
            /\ UNCHANGED model_loading_attempts
    /\ UNCHANGED <<local_model, tokenizer, generator, model_name, load_pc, load_held,
                   chg_held, chg_args, chg_before, chg_loads, chg_calls, otherThanModel>>

\* the thread of change_model takes one step of _load_local_model; when the outermost
\* activation returns, line 1866 returns is_model_ready
ChangeLoadStep ==
    /\ chg_pc \in LoadPositions
    /\ chg_loads' = IF chg_pc = "load" THEN chg_loads + 1 ELSE chg_loads
    /\ \E r \in load_local_model(chg_pc, chg_held, ModelFields) :
        /\ SetModelFields(r.fields)
        /\ chg_held' = r.held
        /\ IF r.pc = "return"
           THEN chg_pc' = "returned" /\ chg_result' = r.fields.is_model_ready
           ELSE chg_pc' = r.pc /\ UNCHANGED chg_result
    /\ UNCHANGED <<load_pc, load_held, chg_args, chg_before, chg_calls, otherThanModel>>

InitChanges ==
    /\ InitModel
    /\ fallback_questions = load_fallback_questions(File(<<>>))
    /\ geography_questions = load_geography_questions(NoFile, fallback_questions)
    /\ AiIdle /\ ApiIdle /\ GenIdle /\ FilterIdle /\ NoManager

NextChanges ==
    \/ LoaderStep
    \/ \E new_model_name \in ModelNames : ChangeModel(new_model_name)
    \/ ChangeStart
    \/ ChangeLoadStep

SpecChanges == InitChanges /\ [][NextChanges]_vars

(***************************************************************************)
(* Sourcing requests of two threads on the one generator                   *)
(***************************************************************************)
\* the generate_questions calls a thread makes: get_questions makes one when the store
\* has too few unseen records; do_regeneration makes one for each of three difficulties
sourcing_calls(t) == IF t = "quiz" THEN {0, 1} ELSE {3}

otherThanThreads ==
    <<use_fallback, transformers_available, is_model_ready, local_model, tokenizer,
      generator, model_name, model_loading_attempts, load_pc, chgFrame,
      fallback_questions, geography_questions, aiFrame, apiFrame, gqFrame, fFrame, qmFrame>>

\* A screen starts thread t for `category`.  The dialog of a regeneration holds the grab
\* until its thread has ended, so no quiz is started meanwhile; the sidebar stays
\* usable while a quiz loads.
ThreadStart(t, category) ==
    /\ th[t].pc = "idle"
    /\ t = "quiz" => th["regeneration"].pc = "idle"
    /\ \E n \in sourcing_calls(t) :
        th' = [th EXCEPT ![t] = [pc |-> IF n = 0 THEN "done" ELSE "model_stage",
                                 category |-> category, left |-> n, attempt |-> 0]]
    /\ UNCHANGED otherThanThreads

\* lines 1237-1247 of generate_questions on thread t: the tests, and the submission of
\* _generate_ai_questions to the executor of this call
ThreadModelStage(t) ==
    /\ th[t].pc = "model_stage"
    /\ th' = [th EXCEPT ![t].pc =
                IF th[t].category = Geography /\ ~use_fallback /\ is_model_ready
                THEN "worker" ELSE "stages"]
    /\ UNCHANGED otherThanThreads

\* lines 1423-1439 on the worker of thread t: the readiness check, and the first call of
\* self.generator
ThreadWorkerBegin(t) ==
    /\ th[t].pc = "worker"
    /\ th' = IF ~is_model_ready \/ generator = None
             THEN [th EXCEPT ![t].pc = "stages"]
             ELSE [th EXCEPT ![t].pc = "inference", ![t].attempt = 1]
    /\ UNCHANGED otherThanThreads

\* the call of self.generator returns or raises on the worker of thread t: the fetch
\* returns, or the next attempt makes the next call; the caller waits for the worker
\* (future.result, then the shutdown of the executor)
ThreadInferenceEnd(t) ==
    /\ th[t].pc = "inference"
    /\ \/ th' = [th EXCEPT ![t].pc = "stages", ![t].attempt = 0]
       \/ /\ th[t].attempt < max_retries
          /\ th' = [th EXCEPT ![t].attempt = th[t].attempt + 1]
    /\ UNCHANGED otherThanThreads

\* lines 1255-1312 on thread t, and what the caller does with the list: the stages that
\* make no call of self.generator; then the next call of the thread, or its end
ThreadStages(t) ==
    /\ th[t].pc = "stages"
    /\ th' = [th EXCEPT ![t].left = th[t].left - 1,
                        ![t].pc = IF th[t].left > 1 THEN "model_stage" ELSE "done"]
    /\ UNCHANGED otherThanThreads

\* thread t ends
ThreadEnd(t) ==
    /\ th[t].pc = "done"
    /\ th' = [th EXCEPT ![t] = NotStarted]
    /\ UNCHANGED otherThanThreads

InitThreads ==
    /\ InitModel
    /\ fallback_questions = load_fallback_questions(File(<<>>))
    /\ geography_questions = load_geography_questions(NoFile, fallback_questions)
    /\ AiIdle /\ ApiIdle /\ GenIdle /\ FilterIdle /\ NoManager

NextThreads ==
    \/ LoadLocalModel
    \/ \E t \in Threads, category \in {Geography, Movies} : ThreadStart(t, category)
    \/ \E t \in Threads : ThreadModelStage(t)
    \/ \E t \in Threads : ThreadWorkerBegin(t)
    \/ \E t \in Threads : ThreadInferenceEnd(t)
    \/ \E t \in Threads : ThreadStages(t)
    \/ \E t \in Threads : ThreadEnd(t)

SpecThreads == InitThreads /\ [][NextThreads]_vars

(***************************************************************************)
(* _filter_sample_questions, called on lists of records                    *)
(***************************************************************************)
\* the longest list given to the filter
MaxQuestions == 2

CityOptions == <<<<"P","a","r","i","s">>, <<"L","o","n","d","o","n">>, <<"B","e","r","l","i","n">>, <<"M","a","d","r","i","d">>>>

\* The records of the lists: the four of the documentation, and for each rule a text
\* or an option that meets it alone, in lower and in upper case, with one and with
\* several blanks between the words, with the question mark inside and at the end.
FilterRecords ==
    {Q(<<"S","a","m","p","l","e"," ","e","a","s","y"," ","q","u","e","s","t","i","o","n"," ","#","3">>, CityOptions, <<"P","a","r","i","s">>, Geography, easy),
     Q(<<"T","o","o"," ","s","h","o","r","t">>, CityOptions, <<"P","a","r","i","s">>, Geography, easy),
     Q(<<"N","o"," ","q","u","e","s","t","i","o","n"," ","m","a","r","k"," ","h","e","r","e",".">>, CityOptions, <<"P","a","r","i","s">>, Geography, easy),
     FranceQuestion,
     Q(<<"W","h","o"," ","f","o","u","n","d","e","d"," ","M","i","c","r","o","s","o","f","t","?">>, CityOptions, <<"P","a","r","i","s">>, <<"T","e","c","h","n","o","l","o","g","y">>, easy),
     Q(<<"W","h","y","?"," ","B","e","c","a","u","s","e"," ","t","h","e"," ","r","i","v","e","r"," ","i","s"," ","l","o","n","g",".">>, CityOptions, <<"P","a","r","i","s">>, Geography, easy),
     Q(<<"W","h","a","t"," "," ","i","s">> \o <<"\t">> \o <<"t","h","i","s"," ","c","i","t","y","?">>, CityOptions, <<"P","a","r","i","s">>, Geography, easy),
     Q(<<"W","h","i","c","h"," ","M","O","V","I","E"," "," ","S","a","m","p","l","e"," ","w","a","s"," ","s","h","o","w","n"," ","i","n"," ","1","9","9","9","?">>, CityOptions, <<"P","a","r","i","s">>, Movies, easy),
     Q(<<"W","h","i","c","h"," ","t","e","c","h"," ","s","a","m","p","l","e"," ","w","a","s"," ","s","h","o","w","n","?">>, CityOptions, <<"P","a","r","i","s">>, <<"T","e","c","h","n","o","l","o","g","y">>, hard),
     Q(<<"I","s"," ","Q","u","e","s","t","i","o","n"," ","#","1","2"," ","a","b","o","u","t"," ","t","h","e"," ","T","r","e","a","s","u","r","e"," ","H","u","n","t","?">>, CityOptions, <<"P","a","r","i","s">>, Movies, hard),
     Q(<<"W","h","e","r","e"," ","d","o","e","s"," ","t","h","e"," ","t","r","e","a","s","u","r","e"," ","h","u","n","t"," ","s","t","a","r","t","?">>, CityOptions, <<"P","a","r","i","s">>, Movies, hard),
     Q(<<"W","h","i","c","h"," ","a","n","s","w","e","r"," ","i","s"," ","t","h","e"," ","r","i","g","h","t"," ","o","n","e","?">>,
       <<<<"P","a","r","i","s">>, <<"W","r","o","n","g"," ","A","n","s","w","e","r"," ","B"," ","#","2">>, <<"B","e","r","l","i","n">>, <<"M","a","d","r","i","d">>>>, <<"P","a","r","i","s">>, Geography, easy),
     Q(<<"W","h","i","c","h"," ","o","p","t","i","o","n"," ","i","s"," ","t","h","e"," ","r","i","g","h","t"," ","o","n","e","?">>,
       <<<<"O","p","t","i","o","n"," ","1">>, <<"O","p","t","i","o","n"," ","2">>, <<"O","p","t","i","o","n"," ","3">>, <<"P","a","r","i","s">>>>, <<"P","a","r","i","s">>, Geography, easy),
     Q(<<"W","h","a","t"," ","i","s"," ","t","h","e"," ","n","e","x","t"," ","h","a","r","d"," ","q","u","e","s","t","i","o","n","?">>, <<>>, <<"P","a","r","i","s">>, Geography, hard)}

FilterCall ==
    /\ f_pc = "idle"
    /\ f_pc' = "called"
    /\ f_questions' \in SeqsUpTo(FilterRecords, MaxQuestions)
    /\ UNCHANGED f_result
    /\ UNCHANGED <<aiFields, aiFrame, apiFrame, gqFrame, qmFrame>>

FilterSampleQuestions ==
    /\ f_pc = "called"
    /\ f_pc' = "returned"
    /\ f_result' = filter_sample_questions(f_questions)
    /\ UNCHANGED f_questions
    /\ UNCHANGED <<aiFields, aiFrame, apiFrame, gqFrame, qmFrame>>

\* the caller takes the list
FilterReturn ==
    /\ f_pc = "returned"
    /\ f_pc' = "idle" /\ f_questions' = <<>> /\ f_result' = None
    /\ UNCHANGED <<aiFields, aiFrame, apiFrame, gqFrame, qmFrame>>

InitFilter ==
    /\ InitModelWith(TRUE, FALSE)
    /\ fallback_questions = load_fallback_questions(File(<<>>))
    /\ geography_questions = load_geography_questions(NoFile, fallback_questions)
    /\ AiIdle /\ ApiIdle /\ GenIdle /\ FilterIdle /\ NoManager

NextFilter ==
    \/ FilterCall
    \/ FilterSampleQuestions
    \/ FilterReturn

SpecFilter == InitFilter /\ [][NextFilter]_vars

(***************************************************************************)
(* The filter called on the fillers of _create_fallback_questions          *)
(***************************************************************************)
\* the most fillers of one call
MaxFillers == 3

\* the categories with a filler template of their own
TemplateCategories == {<<"S","c","i","e","n","c","e">>, <<"H","i","s","t","o","r","y">>, Geography, <<"L","i","t","e","r","a","t","u","r","e">>}

\* the categories and difficulties of the calls: each template, categories with
\* written questions and no template, a category no table knows, an unknown difficulty
FillerCategories == TemplateCategories \cup {Movies, <<"S","p","o","r","t","s">>, <<"C","o","o","k","i","n","g">>}
FillerDifficulties == {easy, medium, hard, <<"e","x","t","r","e","m","e">>}

\* the records the filling loop appended in _create_fallback_questions(category,
\* difficulty, count)
fillers(category, difficulty, count) ==
    LET questions == create_fallback_questions(category, difficulty, count)
    IN  SubSeq(questions, Len(hardcoded_questions(category, difficulty)) + 1, Len(questions))

\* _create_fallback_questions is called for more records than are written, and the
\* filter is called on the fillers
FillersCall ==
    /\ f_pc = "idle"
    /\ f_pc' = "called"
    /\ \E category \in FillerCategories, difficulty \in FillerDifficulties,
          n \in 1..MaxFillers :
        f_questions' = fillers(category, difficulty,
                               Len(hardcoded_questions(category, difficulty)) + n)
    /\ UNCHANGED f_result
    /\ UNCHANGED <<aiFields, aiFrame, apiFrame, gqFrame, qmFrame>>

NextFillers ==
    \/ FillersCall
    \/ FilterSampleQuestions
    \/ FilterReturn

SpecFillers == InitFilter /\ [][NextFillers]_vars

(***************************************************************************)
(* CategoryQuestionManager and UserHistory                                 *)
(***************************************************************************)
\* the dict CategoryQuestionManager.__init__ starts with
empty_buckets == [d \in {easy, medium, hard} |-> <<>>]

\* str.replace(" ", "_")
replace_blanks(s) == [i \in 1..Len(s) |-> IF s[i] = " " THEN "_" ELSE s[i]]

\* the name of the file of a category: f'{category.lower().replace(" ", "_")}_questions.json'
category_file(category) == replace_blanks(lower(category)) \o <<"_","q","u","e","s","t","i","o","n","s",".","j","s","o","n">>

\* load_questions without the reset of its except clause: what the read gave is kept
cm_load_unguarded(files, category) ==
    IF category_file(category) \in DOMAIN files
    THEN files[category_file(category)].content
    ELSE empty_buckets

\* CategoryQuestionManager.load_questions on the files of the data directory, called
\* by __init__: the content of the file of the category; the three empty lists when
\* there is no file, or when reading it raises
cm_load_questions(files, category) ==
    IF category_file(category) \in DOMAIN files /\ files[category_file(category)].readable
    THEN files[category_file(category)].content
    ELSE empty_buckets

\* CategoryQuestionManager.get_questions(difficulty, count) on the dict `buckets`: the
\* lists it can return, one for each outcome of random.shuffle; alias: the list
\* returned is the list object of the bucket, not a copy
cm_get_questions(buckets, difficulty, count) ==
    LET available_questions ==
            IF difficulty \in DOMAIN buckets THEN buckets[difficulty] ELSE <<>>
    IN  IF Len(available_questions) >= count
        THEN {[list |-> SubSeq(questions_copy, 1, count), alias |-> FALSE] :
                questions_copy \in random_shuffle(available_questions)}
        ELSE {[list |-> available_questions, alias |-> difficulty \in DOMAIN buckets]}

\* the loop of add_questions with the difficulty of the record as the key, as it is
\* written, and a new list for a key the dict does not have
RECURSIVE cm_add_verbatim(_, _, _)
cm_add_verbatim(buckets, questions, k) ==
    IF k > Len(questions) THEN [buckets |-> buckets, raised |-> FALSE]
    ELSE LET difficulty == IF "difficulty" \in DOMAIN questions[k]
                           THEN questions[k].difficulty ELSE medium
         IN  cm_add_verbatim(
                IF difficulty \in DOMAIN buckets
                THEN [buckets EXCEPT ![difficulty] = Append(@, questions[k])]
                ELSE (difficulty :> <<questions[k]>>) @@ buckets,
                questions, k + 1)

\* the loop of CategoryQuestionManager.add_questions from the k-th question on, with
\* question.get('difficulty', 'medium').lower(); raised: the KeyError of a dict without
\* the bucket "medium"
RECURSIVE cm_add_questions(_, _, _)
cm_add_questions(buckets, questions, k) ==
    IF k > Len(questions) THEN [buckets |-> buckets, raised |-> FALSE]
    ELSE LET given == IF "difficulty" \in DOMAIN questions[k]
                      THEN lower(questions[k].difficulty) ELSE medium
             difficulty == IF given \in DOMAIN buckets THEN given ELSE medium
         IN  IF difficulty \notin DOMAIN buckets
             THEN [buckets |-> buckets, raised |-> TRUE]
             ELSE cm_add_questions(
                    [buckets EXCEPT ![difficulty] = Append(@, questions[k])],
                    questions, k + 1)

\* str.strip()
RECURSIVE lstrip(_)
lstrip(s) == IF s # <<>> /\ s[1] \in Whitespace THEN lstrip(Tail(s)) ELSE s
RECURSIVE rstrip(_)
rstrip(s) ==
    IF s # <<>> /\ s[Len(s)] \in Whitespace THEN rstrip(SubSeq(s, 1, Len(s) - 1)) ELSE s
strip(s) == rstrip(lstrip(s))

\* _hash_question without strip() and lower(): the text as it is
hash_verbatim(question) == question.question

\* UserHistory._hash_question: question.get("question", "").strip().lower()
hash_question(question) == lower(strip(question.question))

\* filter_unseen_questions looking the fingerprint up in the sets of all the categories
filter_unseen_anywhere(seen, category, questions) ==
    IF category \notin DOMAIN seen
    THEN [list |-> questions, alias |-> TRUE]
    ELSE [list |-> SelectSeq(questions,
                             LAMBDA q : \A c \in DOMAIN seen : hash_question(q) \notin seen[c]),
          alias |-> FALSE]

\* UserHistory.filter_unseen_questions(category, questions) on the dict `seen`; alias:
\* the list returned is the argument itself
filter_unseen_questions(seen, category, questions) ==
    IF category \notin DOMAIN seen
    THEN [list |-> questions, alias |-> TRUE]
    ELSE [list |-> SelectSeq(questions, LAMBDA q : hash_question(q) \notin seen[category]),
          alias |-> FALSE]

\* add_seen_questions without its loop: only the set of the category is started
add_seen_nothing(seen, category, questions) ==
    IF category \in DOMAIN seen THEN seen ELSE (category :> {}) @@ seen

\* the dict seen_questions after the loop of UserHistory.add_seen_questions
add_seen_questions(seen, category, questions) ==
    LET started == IF category \in DOMAIN seen THEN seen ELSE (category :> {}) @@ seen
    IN  [started EXCEPT ![category] = @ \cup {hash_question(q) : q \in Range(questions)}]

(***************************************************************************)
(* QuestionManager.get_questions                                           *)
(***************************************************************************)
\* the most calls of get_questions in one run
MaxCalls == 1

\* the category, difficulty of the calls
ManagerArguments == {<<Geography, easy>>, <<<<"C","o","o","k","i","n","g">>, <<"e","x","t","r","e","m","e">>>>}

\* the split of category_questions of lines 126-133: unseen, seen, and whether unseen
\* is the list object of the bucket
split_seen(user, seen, category, got) ==
    IF user # None /\ got.list # <<>>
    THEN LET unseen == filter_unseen_questions(seen, category, got.list)
         IN  [unseen |-> unseen.list,
              seen |-> SelectSeq(got.list, LAMBDA q : q \notin Range(unseen.list)),
              alias |-> got.alias /\ unseen.alias]
    ELSE [unseen |-> got.list, seen |-> <<>>, alias |-> got.alias]

\* the deficit counted against the unseen and the seen questions of the store
needed_beyond_store(count, split) == count - Len(split.unseen) - Len(split.seen)

\* line 136: needed_questions = count - len(unseen_questions)
needed_questions(count, split) == count - Len(split.unseen)

\* lines 116-141: the category manager is created if there is none, the questions of
\* the store are split, and generate_questions is called for needed_questions
GetQuestions(category, difficulty, count) ==
    /\ qm_pc = "idle" /\ gq_pc = "idle" /\ qm_calls < MaxCalls
    /\ qm_calls' = qm_calls + 1
    /\ qm_args' = [category |-> category, difficulty |-> difficulty, count |-> count]
    /\ cm_store' = IF category \in DOMAIN cm_store THEN cm_store
                   ELSE (category :> cm_load_questions(cm_files, category)) @@ cm_store
    /\ \E got \in cm_get_questions(cm_store'[category], difficulty, count) :
        LET split == split_seen(uh_user, uh_seen, category, got)
            needed == needed_questions(count, split)
        IN  /\ qm_unseen' = split.unseen
            /\ qm_seen' = split.seen
            /\ qm_alias' = split.alias
            /\ IF needed > 0
               THEN /\ qm_pc' = "generating"
                    /\ gq_pc' = "model"
                    /\ gq_args' = [category |-> category, difficulty |-> difficulty,
                                   num_questions |-> needed]
               ELSE /\ qm_pc' = "select"
                    /\ UNCHANGED <<gq_pc, gq_args>>
    /\ qm_before' = IF uh_user = None THEN None ELSE uh_seen
    /\ qm_new' = <<>> /\ qm_held' = cm_store'[category]
    /\ UNCHANGED <<qm_questions, qm_file, cm_files, uh_user, uh_seen, uh_file, qm_result>>
    /\ UNCHANGED <<gq_questions, gq_filtered, gq_result, gq_trace, gq_checked, stFrame>>
    /\ UNCHANGED <<aiFields, aiFrame, apiFrame, fFrame>>

\* line 146 left out: the list stays as it is
not_extended(unseen_questions, new_questions) == unseen_questions

\* line 146: unseen_questions.extend(new_questions)
extended(unseen_questions, new_questions) == unseen_questions \o new_questions

\* lines 139-151: generate_questions has returned new_questions; they are added to the
\* category manager, which saves its file, then to unseen_questions and to
\* self.questions, which is saved.  Each write succeeds or raises.
AddNewQuestions ==
    /\ qm_pc = "generating" /\ gq_pc = "returned"
    /\ GenReset
    /\ IF gq_result = <<>>
       THEN /\ qm_pc' = "select"
            /\ UNCHANGED <<qm_questions, qm_file, cm_store, cm_files, qm_unseen>>
       ELSE LET added == cm_add_questions(cm_store[qm_args.category], gq_result, 1)
                unseen == extended(IF qm_alias THEN added.buckets[qm_args.difficulty]
                                   ELSE qm_unseen, gq_result)
            IN  \E category_saved, questions_saved \in BOOLEAN :
                  IF added.raised \/ ~category_saved
                  THEN /\ qm_pc' = "raised"
                       /\ cm_store' = [cm_store EXCEPT ![qm_args.category] = added.buckets]
                       /\ qm_unseen' = IF qm_alias /\ ~added.raised
                                       THEN added.buckets[qm_args.difficulty] ELSE qm_unseen
                       /\ UNCHANGED <<qm_questions, qm_file, cm_files>>
                  ELSE /\ cm_files' = (category_file(qm_args.category) :> File(added.buckets))
                                        @@ cm_files
                       /\ cm_store' =
                            IF qm_alias
                            THEN [cm_store EXCEPT ![qm_args.category] =
                                    [added.buckets EXCEPT ![qm_args.difficulty] = unseen]]
                            ELSE [cm_store EXCEPT ![qm_args.category] = added.buckets]
                       /\ qm_unseen' = unseen
                       /\ qm_questions' = qm_questions \o gq_result
                       /\ IF questions_saved
                          THEN qm_file' = File(qm_questions') /\ qm_pc' = "select"
                          ELSE UNCHANGED qm_file /\ qm_pc' = "raised"
    /\ qm_new' = gq_result
    /\ UNCHANGED <<uh_user, uh_seen, uh_file, qm_args, qm_seen, qm_alias, qm_result, qm_calls>>
    /\ UNCHANGED <<qm_before, qm_held, stFrame>>
    /\ UNCHANGED <<aiFields, aiFrame, apiFrame, fFrame>>

\* lines 153-171: the shuffle of unseen_questions, the selection, the seen questions
\* when unseen ones are short, and the record in the user history, whose save logs a
\* failure and goes on
SelectQuestions ==
    /\ qm_pc = "select"
    /\ qm_pc' = "returned"
    /\ \E unseen \in random_shuffle(qm_unseen) :
       \E seen \in random_shuffle(qm_seen) :
        LET first == SubSeq(unseen, 1, Min(qm_args.count, Len(unseen)))
            result_questions ==
                IF Len(first) < qm_args.count /\ qm_seen # <<>>
                THEN first \o SubSeq(seen, 1, Min(qm_args.count - Len(first), Len(seen)))
                ELSE first
        IN  /\ qm_unseen' = unseen
            /\ qm_seen' = IF Len(first) < qm_args.count THEN seen ELSE qm_seen
            /\ cm_store' =
                IF qm_alias
                THEN [cm_store EXCEPT ![qm_args.category][qm_args.difficulty] = unseen]
                ELSE cm_store
            /\ qm_result' = result_questions
            /\ IF uh_user # None /\ result_questions # <<>>
               THEN /\ uh_seen' = add_seen_questions(uh_seen, qm_args.category,
                                                     result_questions)
                    /\ \E history_saved \in BOOLEAN :
                        IF history_saved THEN uh_file' = File(uh_seen')
                        ELSE UNCHANGED uh_file
               ELSE UNCHANGED <<uh_seen, uh_file>>
    /\ UNCHANGED <<qm_questions, qm_file, cm_files, uh_user, qm_args, qm_alias, qm_calls>>
    /\ UNCHANGED <<qm_before, qm_new, qm_held, stFrame>>
    /\ UNCHANGED <<aiFields, aiFrame, apiFrame, gqFrame, fFrame>>

\* the caller takes the list
GetQuestionsDone ==
    /\ qm_pc = "returned"
    /\ qm_pc' = "idle" /\ qm_args' = None /\ qm_unseen' = <<>> /\ qm_seen' = <<>>
    /\ qm_alias' = FALSE /\ qm_result' = None /\ qm_before' = None
    /\ qm_new' = <<>> /\ qm_held' = None
    /\ UNCHANGED <<qmFields, qm_calls, stFrame>>
    /\ UNCHANGED <<aiFields, aiFrame, apiFrame, gqFrame, fFrame>>

\* The data directory when the generator and the QuestionManager are constructed: the
\* fallback bank file; no file of the Geography store, or one that the store wrote with
\* one, two or three easy questions (the generator reads its curated set from the same
\* file); and no user, a user without history, or one who has seen the first question.
KangarooQuestion ==
    Q(<<"W","h","i","c","h"," ","c","o","u","n","t","r","y"," ","i","s"," ","h","o","m","e"," ","t","o"," ","t","h","e"," ","k","a","n","g","a","r","o","o","?">>,
      <<<<"A","u","s","t","r","i","a">>, <<"A","u","s","t","r","a","l","i","a">>>>, <<"A","u","s","t","r","a","l","i","a">>, Geography, easy)
StoreFiles ==
    {NoFile} \cup
    {File([empty_buckets EXCEPT ![easy] = SubSeq(<<FranceQuestion, NileQuestion,
                                                   KangarooQuestion>>, 1, n)]) : n \in 1..3}
Users ==
    {[user |-> None, file |-> NoFile],
     [user |-> "alice", file |-> NoFile],
     [user |-> "alice", file |-> File(Geography :> {hash_question(FranceQuestion)})]}
BankFile == CHOOSE f \in FallbackFiles : f.content # <<>>

InitManager ==
    /\ InitModelWith(TRUE, FALSE)
    /\ fallback_questions = load_fallback_questions(BankFile)
    /\ \E store_file \in StoreFiles :
        /\ cm_files = IF store_file.exists
                      THEN category_file(Geography) :> store_file ELSE <<>>
        /\ geography_questions = load_geography_questions(store_file, fallback_questions)
    /\ cm_store = [c \in Range(categories) |-> cm_load_questions(cm_files, c)]
    /\ qm_questions = <<>> /\ qm_file = NoFile
    /\ \E u \in Users :
        uh_user = u.user /\ uh_file = u.file /\ uh_seen = u.file.content
    /\ QmIdle /\ qm_calls = 0 /\ StoresIdle
    /\ AiIdle /\ ApiIdle /\ GenIdle /\ FilterIdle

NextManager ==
    \/ \E a \in ManagerArguments, count \in 1..MaxCount : GetQuestions(a[1], a[2], count)
    \/ ModelStage
    \/ ApiStage
    \/ CuratedStage
    \/ FallbackStage
    \/ FilterStage
    \/ RefillStage
    \/ GuaranteedStage
    \/ GenerateReturn
    \/ AddNewQuestions
    \/ SelectQuestions
    \/ GetQuestionsDone

SpecManager == InitManager /\ [][NextManager]_vars

(***************************************************************************)
(* CategoryQuestionManager and UserHistory called directly                 *)
(***************************************************************************)
\* the most direct calls in one run
MaxOperations == 2

\* UserHistory.load_history on the history file, called by __init__: the content of
\* the file; the empty dict when there is no file, or when reading it raises
load_history(file) == IF file.exists /\ file.readable THEN file.content ELSE <<>>

\* clear_history without its assignments
clear_nothing(seen, category) == seen

\* the dict seen_questions after the assignments of UserHistory.clear_history, for a
\* category or for None
clear_history(seen, category) ==
    IF category # <<>>
    THEN IF category \in DOMAIN seen THEN [seen EXCEPT ![category] = {}] ELSE seen
    ELSE <<>>

\* CategoryQuestionManager.save_questions as its caller sees it, for a write that
\* succeeded or failed: the except clause logs and raises again
save_questions(written) == IF written THEN "returned" ELSE "raised"

\* save_history with a raise at the end of its except clause
save_history_raising(written) == IF written THEN "returned" ELSE "raised"

\* UserHistory.save_history as its caller sees it: the except clause logs and the
\* method returns
save_history(written) == "returned"

\* The records of the direct calls: a question, its text in capitals between blanks,
\* and another question; and records whose difficulty is capitalised, is none
\* of the three, or is missing
FranceShouted ==
    Q(<<" "," ","W","H","A","T"," ","I","S"," ","T","H","E"," ","C","A","P","I","T","A","L"," ","O","F"," ","F","R","A","N","C","E","?"," ">>,
      <<<<"P","a","r","i","s">>, <<"L","o","n","d","o","n">>, <<"B","e","r","l","i","n">>, <<"M","a","d","r","i","d">>>>, <<"P","a","r","i","s">>, Geography, easy)
HistoryLists ==
    {<<>>, <<FranceQuestion>>, <<FranceShouted>>, <<NileQuestion>>,
     <<FranceShouted, NileQuestion>>, <<NileQuestion, FranceQuestion>>,
     <<FranceQuestion, FranceShouted>>}
StoreLists ==
    SeqsUpTo({[NileQuestion EXCEPT !.difficulty = <<"H","a","r","d">>],
     [KangarooQuestion EXCEPT !.difficulty = <<"E","X","T","R","E","M","E">>],
     [question |-> <<"W","h","i","c","h"," ","o","c","e","a","n"," ","i","s"," ","t","h","e"," ","l","a","r","g","e","s","t","?">>,
      options |-> <<<<"P","a","c","i","f","i","c">>, <<"A","t","l","a","n","t","i","c">>>>,
      correct_answer |-> <<"P","a","c","i","f","i","c">>, category |-> Geography]}, 2) \ {<<>>}

\* UserHistory.add_seen_questions(category, questions), with save_history, which logs
\* a failed write and goes on
AddSeenQuestions(category, questions) ==
    /\ uh_user # None /\ st_calls < MaxOperations
    /\ st_calls' = st_calls + 1
    /\ uh_seen' = add_seen_questions(uh_seen, category, questions)
    /\ \E saved \in BOOLEAN :
        /\ uh_file' = IF saved THEN File(uh_seen') ELSE uh_file
        /\ st_call' = [op |-> "add_seen_questions", saved |-> saved]
        /\ st_pc' = save_history(saved)
    /\ st_result' = None
    /\ st_marked' = st_marked \cup {[category |-> category, questions |-> questions]}
    /\ UNCHANGED <<qm_questions, qm_file, cm_store, cm_files, uh_user>>

\* UserHistory.filter_unseen_questions(category, questions); the history keeps the
\* dict as the call found it and, when the call before was clear_history, that call
FilterUnseenQuestions(category, questions) ==
    /\ uh_user # None /\ st_calls < MaxOperations
    /\ st_calls' = st_calls + 1
    /\ st_call' = [op |-> "filter_unseen_questions", category |-> category,
                   questions |-> questions, before |-> uh_seen,
                   cleared |-> IF st_calls > 0 /\ st_call.op = "clear_history"
                               THEN <<[category |-> st_call.category,
                                       before |-> st_call.before]>>
                               ELSE <<>>]
    /\ st_pc' = "returned"
    /\ st_result' = filter_unseen_questions(uh_seen, category, questions).list
    /\ UNCHANGED <<qmFields, st_marked>>

\* UserHistory.clear_history(category), category None written <<>>, with save_history
ClearHistory(category) ==
    /\ uh_user # None /\ st_calls < MaxOperations
    /\ st_calls' = st_calls + 1
    /\ uh_seen' = clear_history(uh_seen, category)
    /\ \E saved \in BOOLEAN :
        /\ uh_file' = IF saved THEN File(uh_seen') ELSE uh_file
        /\ st_call' = [op |-> "clear_history", category |-> category,
                       before |-> uh_seen, saved |-> saved]
        /\ st_pc' = save_history(saved)
    /\ st_result' = None
    /\ st_marked' = {}
    /\ UNCHANGED <<qm_questions, qm_file, cm_store, cm_files, uh_user>>

\* UserHistory.__init__ for the same user: the history is loaded from the file
NewUserHistory ==
    /\ uh_user # None /\ st_calls < MaxOperations
    /\ st_calls' = st_calls + 1
    /\ uh_seen' = load_history(uh_file)
    /\ st_call' = [op |-> "load_history", file |-> uh_file]
    /\ st_pc' = "returned" /\ st_result' = None
    /\ st_marked' = {}
    /\ UNCHANGED <<qm_questions, qm_file, cm_store, cm_files, uh_user, uh_file>>

\* CategoryQuestionManager.add_questions(questions) on the manager of the category,
\* with save_questions, which logs a failed write and raises it again
AddQuestions(category, questions) ==
    /\ category \in DOMAIN cm_store /\ st_calls < MaxOperations
    /\ st_calls' = st_calls + 1
    /\ LET added == cm_add_questions(cm_store[category], questions, 1)
       IN  /\ cm_store' = [cm_store EXCEPT ![category] = added.buckets]
           /\ \E saved \in BOOLEAN :
                /\ st_call' = [op |-> "add_questions", category |-> category,
                               questions |-> questions, before |-> cm_store[category],
                               key_error |-> added.raised,
                               saved |-> saved /\ ~added.raised]
                /\ cm_files' = IF saved /\ ~added.raised
                               THEN (category_file(category) :> File(added.buckets))
                                        @@ cm_files
                               ELSE cm_files
                /\ st_pc' = IF added.raised THEN "raised" ELSE save_questions(saved)
    /\ st_result' = None
    /\ UNCHANGED <<qm_questions, qm_file, uh_user, uh_seen, uh_file, st_marked>>

\* CategoryQuestionManager.__init__(category): the three empty lists, then load_questions
NewCategoryManager(category) ==
    /\ st_calls < MaxOperations
    /\ st_calls' = st_calls + 1
    /\ cm_store' = (category :> cm_load_questions(cm_files, category)) @@ cm_store
    /\ st_call' = [op |-> "load_questions", category |-> category]
    /\ st_pc' = "returned" /\ st_result' = None
    /\ UNCHANGED <<qm_questions, qm_file, cm_files, uh_user, uh_seen, uh_file, st_marked>>

\* The data directory when the two objects are constructed: the file of the Geography
\* store and the history file of the user are each missing, unreadable, or as the
\* object wrote them
InitStores ==
    /\ InitModelWith(TRUE, FALSE)
    /\ fallback_questions = load_fallback_questions(File(<<>>))
    /\ geography_questions = load_geography_questions(NoFile, fallback_questions)
    /\ \E store_file \in {NoFile, Unreadable,
                          File([empty_buckets EXCEPT ![easy] = <<FranceQuestion>>])} :
        cm_files = IF store_file.exists
                   THEN category_file(Geography) :> store_file ELSE <<>>
    /\ cm_store = Geography :> cm_load_questions(cm_files, Geography)
    /\ qm_questions = <<>> /\ qm_file = NoFile
    /\ uh_user = "alice"
    /\ uh_file \in {NoFile, Unreadable, File(Geography :> {hash_question(FranceQuestion)})}
    /\ uh_seen = load_history(uh_file)
    /\ QmIdle /\ qm_calls = 0 /\ StoresIdle
    /\ AiIdle /\ ApiIdle /\ GenIdle /\ FilterIdle

NextStores ==
    \/ /\ \/ \E c \in {Geography, Movies}, qs \in HistoryLists :
                \/ AddSeenQuestions(c, qs)
                \/ FilterUnseenQuestions(c, qs)
          \/ \E c \in {<<>>, Geography, Movies} : ClearHistory(c)
          \/ NewUserHistory
       /\ UNCHANGED <<qm_pc, qm_args, qm_unseen, qm_seen, qm_alias, qm_result, qm_calls,
                      qm_before, qm_new, qm_held>>
       /\ UNCHANGED <<aiFields, aiFrame, apiFrame, gqFrame, fFrame>>
    \/ /\ \/ \E qs \in StoreLists : AddQuestions(Geography, qs)
          \/ \E c \in {Geography, Movies} : NewCategoryManager(c)
       /\ UNCHANGED <<qm_pc, qm_args, qm_unseen, qm_seen, qm_alias, qm_result, qm_calls,
                      qm_before, qm_new, qm_held>>
       /\ UNCHANGED <<aiFields, aiFrame, apiFrame, gqFrame, fFrame>>

SpecStores == InitStores /\ [][NextStores]_vars

(***************************************************************************)
(* CategoryQuestionManager over a file it did not write                    *)
(***************************************************************************)
\* Contents of data/geography_questions.json that are JSON objects of lists: the three
\* buckets; the object without "hard" (the generator's curated set comes from the same
\* file); with "easy" only; the empty object; and with a fourth key
LoadedFiles ==
    { File([empty_buckets EXCEPT ![easy] = <<FranceQuestion>>]),
      File(easy :> <<FranceQuestion, NileQuestion>> @@ medium :> <<>>),
      File(easy :> <<FranceQuestion>>),
      File(<<>>),
      File(<<"e","x","p","e","r","t">> :> <<>> @@ [empty_buckets EXCEPT ![easy] = <<FranceQuestion>>]) }

\* The data directory when the objects are constructed: the file of the Geography
\* store is one of LoadedFiles; the history file is missing or as the object wrote it
InitLoaded ==
    /\ InitModelWith(TRUE, FALSE)
    /\ fallback_questions = load_fallback_questions(File(<<>>))
    /\ geography_questions = load_geography_questions(NoFile, fallback_questions)
    /\ \E store_file \in LoadedFiles : cm_files = category_file(Geography) :> store_file
    /\ cm_store = Geography :> cm_load_questions(cm_files, Geography)
    /\ qm_questions = <<>> /\ qm_file = NoFile
    /\ uh_user = "alice"
    /\ uh_file \in {NoFile, File(Geography :> {hash_question(FranceQuestion)})}
    /\ uh_seen = load_history(uh_file)
    /\ QmIdle /\ qm_calls = 0 /\ StoresIdle
    /\ AiIdle /\ ApiIdle /\ GenIdle /\ FilterIdle

SpecLoaded == InitLoaded /\ [][NextStores]_vars

(***************************************************************************)
(* The files of the data directory and the objects that read and write     *)
(* them                                                                    *)
(***************************************************************************)
\* the file _load_geography_questions reads, and the one _load_fallback_questions reads
\* and writes
geography_file == <<"g","e","o","g","r","a","p","h","y","_","q","u","e","s","t","i","o","n","s",".","j","s","o","n">>
fallback_file == <<"f","a","l","l","b","a","c","k","_","q","u","e","s","t","i","o","n","s",".","j","s","o","n">>

\* the names an administrator adds as categories
CategoryNames == {<<"g","e","o","g","r","a","p","h","y">>, <<"P","o","p"," ","M","u","s","i","c">>, <<"p","o","p","_","m","u","s","i","c">>, <<"F","a","l","l","b","a","c","k">>}

\* QuestionManager.add_category(category_name) for a name that is not a category yet:
\* _get_category_manager constructs the manager of the name, which loads its file
AddCategory(category_name) ==
    /\ category_name \notin DOMAIN cm_store /\ st_calls < MaxOperations
    /\ st_calls' = st_calls + 1
    /\ cm_store' = (category_name :> cm_load_questions(cm_files, category_name)) @@ cm_store
    /\ st_call' = [op |-> "add_category", category |-> category_name]
    /\ st_pc' = "returned" /\ st_result' = TRUE
    /\ UNCHANGED <<qm_questions, qm_file, cm_files, uh_user, uh_seen, uh_file, st_marked>>

\* The data directory when the generator and the QuestionManager are constructed: the
\* fallback bank file the generator wrote, and no file of the Geography store or one
\* the store wrote; the QuestionManager constructs the managers of its categories
InitFiles ==
    /\ InitModelWith(TRUE, FALSE)
    /\ fallback_questions = load_fallback_questions(BankFile)
    /\ \E store_file \in {NoFile, File([empty_buckets EXCEPT ![easy] = <<FranceQuestion>>])} :
        /\ cm_files = (fallback_file :> BankFile)
                        @@ (IF store_file.exists THEN geography_file :> store_file ELSE <<>>)
        /\ geography_questions = load_geography_questions(store_file, fallback_questions)
    /\ cm_store = [c \in Range(categories) |-> cm_load_questions(cm_files, c)]
    /\ qm_questions = <<>> /\ qm_file = NoFile
    /\ uh_user = None /\ uh_file = NoFile /\ uh_seen = <<>>
    /\ QmIdle /\ qm_calls = 0 /\ StoresIdle
    /\ AiIdle /\ ApiIdle /\ GenIdle /\ FilterIdle

NextFiles ==
    /\ \/ \E c \in CategoryNames : AddCategory(c)
       \/ \E c \in CategoryNames \cup {Geography}, qs \in StoreLists : AddQuestions(c, qs)
    /\ UNCHANGED <<qm_pc, qm_args, qm_unseen, qm_seen, qm_alias, qm_result, qm_calls,
                   qm_before, qm_new, qm_held>>
    /\ UNCHANGED <<aiFields, aiFrame, apiFrame, gqFrame, fFrame>>

SpecFiles == InitFiles /\ [][NextFiles]_vars

(***************************************************************************)
(* QuestionManager.remove_question, called by the administration screen    *)
(***************************************************************************)
\* QuestionManager.load_questions on data/questions.json, called by __init__: the
\* content of the file; the empty list when there is no file or reading it raises
qm_load_questions(file) == IF file.exists /\ file.readable THEN file.content ELSE <<>>

\* list.remove(x): the list without the first element equal to x
RECURSIVE list_remove(_, _)
list_remove(list, x) ==
    IF list = <<>> THEN <<>>
    ELSE IF Head(list) = x THEN Tail(list)
    ELSE <<Head(list)>> \o list_remove(Tail(list), x)

\* QuestionManager.remove_question(question) for a record the administration screen
\* lists (one of self.questions), with save_questions, whose write succeeds or raises
RemoveQuestion(question) ==
    /\ qm_pc = "idle" /\ st_calls < MaxOperations
    /\ question \in Range(qm_questions)
    /\ st_calls' = st_calls + 1
    /\ qm_questions' = list_remove(qm_questions, question)
    /\ \E saved \in BOOLEAN :
        /\ qm_file' = IF saved THEN File(qm_questions') ELSE qm_file
        /\ st_call' = [op |-> "remove_question", question |-> question,
                       before |-> qm_questions, saved |-> saved]
        /\ st_pc' = save_questions(saved)
    /\ st_result' = None
    /\ UNCHANGED <<cm_store, cm_files, uh_user, uh_seen, uh_file, st_marked>>
    /\ UNCHANGED <<qm_pc, qm_args, qm_unseen, qm_seen, qm_alias, qm_result, qm_calls,
                   qm_before, qm_new, qm_held>>
    /\ UNCHANGED <<aiFields, aiFrame, apiFrame, gqFrame, fFrame>>

\* The data directory when the generator and the QuestionManager are constructed after
\* runs that sourced one, two or three easy Geography questions: get_questions wrote
\* them to the file of the Geography store and to data/questions.json
InitRemoval ==
    /\ InitModelWith(TRUE, FALSE)
    /\ fallback_questions = load_fallback_questions(BankFile)
    /\ \E store_file \in StoreFiles \ {NoFile} :
        /\ cm_files = category_file(Geography) :> store_file
        /\ geography_questions = load_geography_questions(store_file, fallback_questions)
        /\ qm_file = File(store_file.content[easy])
    /\ cm_store = [c \in Range(categories) |-> cm_load_questions(cm_files, c)]
    /\ qm_questions = qm_load_questions(qm_file)
    /\ \E u \in Users :
        uh_user = u.user /\ uh_file = u.file /\ uh_seen = u.file.content
    /\ QmIdle /\ qm_calls = 0 /\ StoresIdle
    /\ AiIdle /\ ApiIdle /\ GenIdle /\ FilterIdle

NextRemoval ==
    \/ \E question \in {FranceQuestion, NileQuestion, KangarooQuestion} :
            RemoveQuestion(question)
    \/ NextManager

SpecRemoval == InitRemoval /\ [][NextRemoval]_vars

(***************************************************************************)
(* Properties of generate_questions without data files (SpecOffline)       *)
(***************************************************************************)
\* the model stage and the API stage of the call brought nothing
SourcesBroughtNothing ==
    \A i \in 1..Len(gq_trace) : gq_trace[i].stage \in {"model", "api"} => gq_trace[i].added = 0

\* C19: when the model and the API bring nothing and the bank is the built-in one,
\* generate_questions("Science", "easy", 5) returns exactly 5 records, each of them
\* accepted by the sample filter, with 5 different question texts.
C19_FiveDistinct ==
    (gq_pc = "returned" /\ SourcesBroughtNothing) =>
        /\ Len(gq_result) = 5
        /\ filter_sample_questions(gq_result) = gq_result
        /\ \A i, j \in 1..Len(gq_result) :
                i # j => gq_result[i].question # gq_result[j].question

\* the call returned five records of the bank after a failed request, the three written
\* questions of the bank among them
C19_Witness ==
    /\ gq_pc = "returned" /\ SourcesBroughtNothing
    /\ \E i \in 1..Len(gq_trace) :
            gq_trace[i].stage = "api" /\ gq_trace[i].outcome = "URLError"
    /\ Range(hardcoded_questions(<<"S","c","i","e","n","c","e">>, easy)) \subseteq Range(gq_result)
    /\ \E i \in 1..Len(gq_trace) :
            gq_trace[i].stage = "fallback" /\ gq_trace[i].added = 5

(***************************************************************************)
(* Properties of the stores called directly (SpecStores)                   *)
(***************************************************************************)
\* the text of a record, lower-cased and trimmed
Normalised(q) == strip(lower(q.question))

\* C12: after add_seen_questions(cat, records) on a UserHistory that is not cleared
\* since, filter_unseen_questions(cat, rs) returns no record whose lower-cased, trimmed
\* text equals that of a record of records, and filter_unseen_questions(cat, records)
\* returns the empty list.
C12_SeenAreFiltered ==
    (st_pc = "returned" /\ st_call.op = "filter_unseen_questions") =>
        \A m \in st_marked :
            m.category = st_call.category =>
                /\ \A r \in Range(st_result), q \in Range(m.questions) :
                        Normalised(r) # Normalised(q)
                /\ st_call.questions = m.questions => st_result = <<>>

\* a filter of two records after the one in capitals was marked for the category
\* returned the other one only
C12_Witness ==
    /\ st_pc = "returned" /\ st_call.op = "filter_unseen_questions"
    /\ [category |-> st_call.category, questions |-> <<FranceShouted>>] \in st_marked
    /\ st_call.questions = <<NileQuestion, FranceQuestion>>
    /\ st_result = <<NileQuestion>>

\* the bucket of a record: its difficulty in lower case when that is one of the three,
\* medium otherwise
BucketOf(q) ==
    IF "difficulty" \in DOMAIN q /\ lower(q.difficulty) \in {easy, medium, hard}
    THEN lower(q.difficulty) ELSE medium

C17_BankWriteRaised ==
    /\ st_pc = "raised" /\ st_call.op = "add_questions"
    /\ cm_store[st_call.category] # cm_load_questions(cm_files, st_call.category)

\* the file of a category in the data directory
StoreFile(category) ==
    IF category_file(category) \in DOMAIN cm_files
    THEN cm_files[category_file(category)] ELSE NoFile

\* C18: reading never raises.  A CategoryQuestionManager constructed over a missing or
\* unreadable file holds exactly the three empty buckets, and a UserHistory constructed
\* over a missing or unreadable file holds the empty seen map; over a readable file each
\* holds the content of the file.
C18_ReadFailureGivesDefault ==
    /\ (st_pc # "idle" /\ st_call.op = "load_questions") =>
            /\ st_pc = "returned"
            /\ cm_store[st_call.category] =
                    IF StoreFile(st_call.category).exists
                        /\ StoreFile(st_call.category).readable
                    THEN StoreFile(st_call.category).content
                    ELSE [d \in {easy, medium, hard} |-> <<>>]
    /\ (st_pc # "idle" /\ st_call.op = "load_history") =>
            /\ st_pc = "returned"
            /\ uh_seen = IF uh_file.exists /\ uh_file.readable
                         THEN uh_file.content ELSE <<>>

\* a store was constructed over an unreadable file, after a history was constructed on
\* an unreadable file: both hold their empty default
C18_Witness ==
    /\ st_pc = "returned" /\ st_call.op = "load_questions"
    /\ st_call.category = Geography
    /\ StoreFile(Geography) = Unreadable
    /\ cm_store[Geography] = empty_buckets
    /\ uh_file = Unreadable /\ uh_seen = <<>> /\ st_calls = 2

(***************************************************************************)
(* Properties of get_questions with a user (SpecManager)                   *)
(***************************************************************************)
\* the fingerprints the history holds for a category
SeenOf(seen, category) == IF category \in DOMAIN seen THEN seen[category] ELSE {}

\* C13: with a user logged in, when get_questions returns R every record of R has its
\* fingerprint in the seen-set of the user for the category, and the call added only
\* fingerprints of records of R, to that category only.
C13_ReturnedAreMarked ==
    (qm_pc = "returned" /\ uh_user # None) =>
        LET returned == {Normalised(q) : q \in Range(qm_result)}
        IN  /\ returned \subseteq SeenOf(uh_seen, qm_args.category)
            /\ SeenOf(uh_seen, qm_args.category)
                    \ SeenOf(qm_before, qm_args.category) \subseteq returned
            /\ \A c \in (DOMAIN uh_seen \cup DOMAIN qm_before) \ {qm_args.category} :
                    SeenOf(uh_seen, c) = SeenOf(qm_before, c)

\* a user who had seen one question was given two, one of them new to the history
C13_Witness ==
    /\ qm_pc = "returned" /\ uh_user # None
    /\ SeenOf(qm_before, qm_args.category) # {}
    /\ Len(qm_result) = 2
    /\ \E q \in Range(qm_result) :
            Normalised(q) \notin SeenOf(qm_before, qm_args.category)
    /\ Cardinality(SeenOf(uh_seen, qm_args.category)) >= 2

\* C14 as amended: with a user logged in, get_questions calls generate_questions exactly
\* when the unseen questions of the store are fewer than count, for count minus their
\* number, however many seen questions the store gave; and when it has called it, the
\* list it returns is taken from the unseen and the new questions only.
C14_DeficitOfUnseen ==
    [][uh_user # None =>
        /\ (qm_pc = "idle" /\ qm_pc' # "idle") =>
                IF Len(qm_unseen') < qm_args'.count
                THEN /\ qm_pc' = "generating"
                     /\ gq_args'.num_questions = qm_args'.count - Len(qm_unseen')
                ELSE qm_pc' = "select" /\ gq_pc' = "idle"
        /\ (qm_pc = "select" /\ qm_pc' = "returned") =>
                Range(qm_result') \subseteq Range(qm_unseen')]_vars

\* C14 as stated: generate_questions is called only if the unseen and the seen
\* questions of the store are together fewer than count.
C14_DeficitOfStore ==
    [][(uh_user # None /\ qm_pc = "idle" /\ qm_pc' = "generating") =>
            Len(qm_unseen') + Len(qm_seen') < qm_args'.count]_vars

\* generate_questions is running for a user whose store gave count questions, one of
\* them seen
C14_Witness ==
    /\ qm_pc = "generating" /\ uh_user # None
    /\ qm_seen # <<>>
    /\ Len(qm_unseen) + Len(qm_seen) = qm_args.count
    /\ gq_args.num_questions = Len(qm_seen)

\* the texts of the curated set of the call's difficulty (for Geography the content the
\* store file had when the objects were constructed) that the user had not been served
\* when the call was made
Unserved ==
    {Normalised(q) : q \in IF qm_args.difficulty \in DOMAIN geography_questions
                            THEN Range(geography_questions[qm_args.difficulty]) ELSE {}}
        \ SeenOf(qm_before, qm_args.category)

\* C15: for one user and one category, with no clear_history, get_questions returns a
\* text the user has been served before only when the store and the banks hold fewer
\* than count records with a text the user has not been served.
C15_RepeatOnlyWhenExhausted ==
    (qm_pc = "returned" /\ uh_user # None) =>
        ((\E q \in Range(qm_result) :
                Normalised(q) \in SeenOf(qm_before, qm_args.category))
            => Cardinality(Unserved) < qm_args.count)

\* C20: when get_questions has returned (its writes succeeded), the questions each
\* CategoryQuestionManager holds in memory are the content of its file, or the three
\* empty lists when it has no file.
C20_MemoryEqualsFile ==
    qm_pc = "returned" =>
        \A c \in DOMAIN cm_store :
            cm_store[c] = IF StoreFile(c).exists THEN StoreFile(c).content
                          ELSE empty_buckets

(***************************************************************************)
(* Properties of generate_questions (Spec)                                 *)
(***************************************************************************)
\* the entries of the history of the call in progress
Entries == {gq_trace[i] : i \in 1..Len(gq_trace)}

\* C1: for every category, known or unknown, every difficulty and every count >= 1,
\* and whatever the model, the API, the curated set and the fallback bank return,
\* generate_questions returns a list of exactly count records.
C1_ExactCount ==
    gq_pc = "returned" => Len(gq_result) = gq_args.num_questions

\* a call for an unknown category whose stages all brought nothing returned MaxCount
\* guaranteed records
C1_Witness ==
    /\ gq_pc = "returned"
    /\ gq_args.category \notin guaranteed_categories
    /\ gq_args.num_questions = MaxCount
    /\ Len(gq_result) = MaxCount
    /\ \E e \in Entries : e.stage = "guaranteed" /\ e.before = 0 /\ e.added = MaxCount

\* a call for one question whose stages brought two returned one
Truncated ==
    /\ gq_pc = "returned"
    /\ gq_args.num_questions = 1
    /\ Len(gq_filtered) = 2
    /\ Len(gq_result) = 1

\* C3: every record of the list generate_questions returns is one the sample filter
\* accepts, whichever stage brought it, the guaranteed questions included, which are
\* appended without being filtered.
C3_NoSampleReturned ==
    gq_pc = "returned" => filter_sample_questions(gq_result) = gq_result

\* a returned list that holds a guaranteed record and a record of an earlier stage,
\* from a call one of whose stages brought a record the filter removed
C3_Witness ==
    /\ gq_pc = "returned"
    /\ Len(gq_questions) > Len(filter_sample_questions(gq_questions))
    /\ \E e \in Entries : e.stage = "guaranteed" /\ e.before > 0 /\ e.added > 0
    /\ Len(gq_result) = MaxCount

\* the place of a stage in the documented sequence
StageRank(stage) ==
    CASE stage = "model" -> 1
      [] stage = "api" -> 2
      [] stage = "curated" -> 3
      [] stage = "fallback" -> 4
      [] stage = "filter" -> 5
      [] stage = "refill" -> 6
      [] stage = "guaranteed" -> 7

\* C4: within one call the stages run in the order model, API, curated Geography set,
\* fallback bank, filter, refill, guaranteed; and the API, curated, fallback, refill and
\* guaranteed stages are entered only when the list accumulated so far is shorter than
\* count.
C4_StageOrder ==
    \A i \in 1..Len(gq_trace) :
        /\ i > 1 => StageRank(gq_trace[i - 1].stage) < StageRank(gq_trace[i].stage)
        /\ gq_trace[i].stage \in {"api", "curated", "fallback", "refill", "guaranteed"}
            => gq_trace[i].before < gq_args.num_questions

\* a call that entered all seven stages
C4_Witness ==
    /\ gq_pc = "returned"
    /\ [i \in 1..Len(gq_trace) |-> gq_trace[i].stage]
        = <<"model", "api", "curated", "fallback", "filter", "refill", "guaranteed">>

\* C5: whenever the model is enabled and its readiness flag is true, generate_questions
\* attempts the model fetch as its first stage, for every requested category.
C5_ModelFirstForEveryCategory ==
    (/\ gq_pc \notin {"idle", "model"}
     /\ ~gq_checked.use_fallback
     /\ gq_checked.is_model_ready)
        => (gq_trace # <<>> /\ gq_trace[1].stage = "model")

\* C6: when max_wait_time has passed, generate_questions can move on to the API stage
\* whether or not the worker has finished: a worker that never finishes is abandoned.
C6_TimeoutAbandonsWorker ==
    (gq_pc = "shutdown" /\ ai_pc # "returned") => ENABLED ExecutorShutdown

\* the category or the difficulty of the call is one the fallback bank has no list for
UnknownToBank ==
    \/ gq_args.category \notin DOMAIN fallback_questions
    \/ gq_args.difficulty \notin DOMAIN fallback_questions[gq_args.category]

\* no exception leaves the call; a model fetch that timed out and an API call that
\* failed or reported a non-zero code added no record
FailuresAddNothing ==
    /\ gq_pc # "raised"
    /\ \A e \in Entries :
        /\ (e.stage = "model" /\ e.outcome = "timeout") => e.added = 0
        /\ (e.stage = "api" /\ e.outcome # "ok") => e.added = 0

WellFormed(q) == Len(q.options) = 4 /\ q.correct_answer \in Range(q.options)

\* C8: every record the model fetch or the API fetch returns has exactly 4 options and
\* its correct_answer among them, whatever number of options the source supplied.
C8_FourOptions ==
    /\ ai_pc = "returned" => \A i \in 1..Len(ai_result) : WellFormed(ai_result[i])
    /\ api_pc = "returned" => \A i \in 1..Len(api_result) : WellFormed(api_result[i])

Max(a, b) == IF a >= b THEN a ELSE b
\* the number of occurrences of x in the list
Count(list, x) == Cardinality({j \in 1..Len(list) : list[j] = x})

\* the i-th returned record was emitted with its correct_answer absent from its options
EmittedWithoutAnswer(i) ==
    ai_emitted[i].correct_answer \notin Range(ai_emitted[i].options)

\* C9 as stated: a record the model emitted with correct_answer absent from its options
\* is returned by the model fetch with options[0] equal to correct_answer.
C9_AnswerFirst ==
    ai_pc = "returned" =>
        \A i \in 1..Len(ai_result) :
            EmittedWithoutAnswer(i) => ai_result[i].options[1] = ai_result[i].correct_answer

\* C9 amended: a record the model emitted with correct_answer absent from its options,
\* which are not empty, is returned by the model fetch with correct_answer among its
\* options, in the place of the first emitted option and at a position the shuffle
\* chooses, beside the other emitted options.
C9_AnswerAmongOptions ==
    ai_pc = "returned" =>
        \A i \in 1..Len(ai_result) :
            EmittedWithoutAnswer(i) =>
                /\ ai_emitted[i].options # <<>>
                /\ ai_result[i].correct_answer = ai_emitted[i].correct_answer
                /\ ai_result[i].correct_answer \in Range(ai_result[i].options)
                /\ Len(ai_result[i].options) = Max(4, Len(ai_emitted[i].options))
                /\ \A x \in Range(ai_emitted[i].options) \cup {ai_emitted[i].correct_answer} :
                        Count(ai_result[i].options, x)
                            >= Count(Tail(ai_emitted[i].options), x)
                                + (IF x = ai_emitted[i].correct_answer THEN 1 ELSE 0)

\* a returned record that was repaired and whose correct_answer is not its first option
C9_Witness ==
    /\ ai_pc = "returned"
    /\ \E i \in 1..Len(ai_result) :
        /\ EmittedWithoutAnswer(i)
        /\ ai_result[i].options[1] # ai_result[i].correct_answer

(***************************************************************************)
(* Properties of the sample filter (SpecFilter)                            *)
(***************************************************************************)
\* the five conditions of the documentation, on the record as it is given
MatchesPlaceholder(text) == any_pattern(sample_patterns, lower(text))
HasBannedPhrase(q) ==
    /\ q.category \in category_pattern_keys
    /\ any_pattern(category_patterns(q.category), lower(q.question))
Tokens(text) == split_len(text)
Rejected(q) ==
    \/ MatchesPlaceholder(q.question)
    \/ HasBannedPhrase(q)
    \/ \E i \in 1..Len(q.options) : MatchesPlaceholder(q.options[i])
    \/ Tokens(q.question) < 4
    \/ "?" \notin Range(q.question)

\* C10: the sample filter rejects a record if and only if its text matches a placeholder
\* pattern, or holds a banned phrase of its category, or one of its options matches a
\* placeholder pattern, or its text has fewer than 4 whitespace-separated tokens, or its
\* text holds no question mark; so "Sample easy question #3", "Too short" and "No
\* question mark here." are rejected and "What is the capital of France?" with the
\* options Paris, London, Berlin, Madrid is accepted.
C10_RejectedIff ==
    f_pc = "returned" =>
        /\ \A i \in 1..Len(f_questions) :
            (f_questions[i] \notin Range(f_result)) <=> Rejected(f_questions[i])
        /\ \A i \in 1..Len(f_result) :
            f_result[i].question \notin
                {<<"S","a","m","p","l","e"," ","e","a","s","y"," ","q","u","e","s","t","i","o","n"," ","#","3">>, <<"T","o","o"," ","s","h","o","r","t">>, <<"N","o"," ","q","u","e","s","t","i","o","n"," ","m","a","r","k"," ","h","e","r","e",".">>}
        /\ FranceQuestion \in Range(f_questions) => FranceQuestion \in Range(f_result)

\* the filter was given the accepted example after a rejected one and returned it alone
C10_Witness ==
    /\ f_pc = "returned"
    /\ Len(f_questions) = 2
    /\ f_questions[1].question = <<"N","o"," ","q","u","e","s","t","i","o","n"," ","m","a","r","k"," ","h","e","r","e",".">>
    /\ f_questions[2] = FranceQuestion
    /\ f_result = <<FranceQuestion>>

\* r holds records of xs, each at a place of its own, in the order they have in xs
IsSubList(r, xs) ==
    \E place \in [1..Len(r) -> 1..Len(xs)] :
        /\ \A i \in 1..Len(r) : xs[place[i]] = r[i]
        /\ \A i, j \in 1..Len(r) : i < j => place[i] < place[j]

\* C11: filtering is idempotent: _filter_sample_questions applied to its own output
\* returns that output unchanged, and the output is a sub-list of the list it was given,
\* in the same relative order.
C11_FilterIdempotent ==
    f_pc = "returned" =>
        /\ filter_sample_questions(f_result) = f_result
        /\ IsSubList(f_result, f_questions)

\* the filter was given two different records it accepts and returned both
C11_Witness ==
    /\ f_pc = "returned"
    /\ Len(f_result) = 2
    /\ f_result[1] # f_result[2]
    /\ f_result = f_questions

NothingStored ==
    /\ qm_pc = "returned"
    /\ uh_user = None
    /\ qm_args.category \notin Range(categories)
    /\ Len(qm_result) = MaxCount

(***************************************************************************)
(* Changing and loading the model                                          *)
(***************************************************************************)
\* the step is a call of change_model with the name the generator has
SameNameCall == chg_calls' = chg_calls + 1 /\ chg_args' = model_name

\* C21: change_model(name) with name equal to the current model name changes none of
\* the readiness flag, the three handles, the model name and the attempt counter,
\* returns True at once and starts no load.
C21_SameNameIsNoOp ==
    [][SameNameCall =>
        /\ ModelFields' = ModelFields
        /\ load_pc' = load_pc
        /\ chg_pc' = "returned" /\ chg_result' = TRUE /\ chg_loads' = 0]_vars

\* change_model was called with the name of a model that is loaded and ready
C21_Witness ==
    /\ chg_calls > 0 /\ chg_pc = "returned"
    /\ chg_before.model_name = chg_args
    /\ chg_before.is_model_ready /\ chg_before.generator = chg_args
    /\ chg_loads = 0

\* the thread of change_model is about to enter _load_local_model for the first time
AtFirstLoadStep == chg_pc = "load" /\ chg_loads = 0

Released == local_model = None /\ tokenizer = None /\ generator = None

\* C22: when the first load step of a change_model call to another name begins, the
\* readiness flag is false and the model, tokenizer and generator handles are none.
C22_ReleasedBeforeLoad == AtFirstLoadStep => ~is_model_ready /\ Released

\* the same for the calls made when the loading thread of __init__ has ended
ReleasedWhenAlone ==
    AtFirstLoadStep /\ chg_before.load_pc = "done" => ~is_model_ready /\ Released

\* a loaded and ready model is being replaced, the loading thread having ended
ReplacingAlone ==
    /\ AtFirstLoadStep /\ chg_before.load_pc = "done"
    /\ chg_before.is_model_ready /\ chg_before.generator # None
    /\ chg_before.tokenizer # None /\ chg_before.local_model # None

\* the load __init__ started has ended and none of its attempts succeeded
LoadExhausted ==
    /\ ~use_fallback /\ transformers_available
    /\ load_pc = "done" /\ generator = None

\* C23: a load makes at most max_model_loading_attempts attempts; when all of them have
\* failed it has made exactly that many and the readiness flag is false, and while
\* nobody calls change_model the flag stays false and no generate_questions call
\* submits or runs a model fetch.
C23_ThreeAttemptsThenOff ==
    /\ model_loading_attempts <= max_model_loading_attempts
    /\ LoadExhausted =>
        /\ model_loading_attempts = max_model_loading_attempts
        /\ ~is_model_ready
        /\ ai_pc = "idle"
        /\ \A e \in Entries : e.stage # "model"

\* after three failed attempts a call for Geography went straight to the API stage
C23_Witness ==
    /\ LoadExhausted /\ model_loading_attempts = 3
    /\ gq_pc = "returned" /\ gq_args.category = Geography
    /\ ~gq_checked.use_fallback /\ ~gq_checked.is_model_ready
    /\ gq_trace[1].stage = "api"

(***************************************************************************)
(* The attempts of one model fetch (SpecSources)                           *)
(***************************************************************************)
\* the iterations of the loop made so far by the fetch in progress
Attempts == 1..Len(ai_log)

\* C24: a model fetch makes at most max_retries attempts; an attempt that appends a
\* valid record to `questions` is the last one and the fetch returns a non-empty list at
\* it; a fetch none of whose attempts appended a record returns the empty list.
C24_ReturnsAtFirstValid ==
    /\ Len(ai_log) <= max_retries
    /\ \A i \in Attempts :
        ai_log[i].appended > 0 =>
            i = Len(ai_log) /\ ai_pc = "returned" /\ ai_result # <<>>
    /\ (ai_pc = "returned" /\ \A i \in Attempts : ai_log[i].appended = 0)
        => ai_result = <<>>

\* the same, but for the attempts whose validation loop raised after it had appended a
\* record: the fetch goes on, and returns the record at a later attempt whose array is
\* parsed, or the empty list
ReturnsAtFirstValidated ==
    /\ Len(ai_log) <= max_retries
    /\ \A i \in Attempts :
        ai_log[i].appended > 0 /\ ai_log[i].outcome = "validated" =>
            i = Len(ai_log) /\ ai_pc = "returned" /\ ai_result # <<>>
    /\ (ai_pc = "returned" /\ \A i \in Attempts : ai_log[i].appended = 0)
        => ai_result = <<>>

\* a record was validated at the first attempt and the fetch returned the empty list
ValidRecordLost ==
    /\ ai_pc = "returned" /\ ai_result = <<>>
    /\ Len(ai_log) = max_retries /\ ai_log[1].appended > 0

\* C25: the first attempt of a model fetch is given the category-specific prompt, and
\* the second and the third the simplified prompt, whatever made the attempt before
\* fail.
C25_SimplifiedAfterFirstFailure ==
    \A i \in Attempts :
        ai_log[i].prompt = IF i = 1 THEN create_prompt_for_category(ai_args.category, FALSE)
                           ELSE "simplified"

\* what the attempts are given: the second the category-specific prompt again; the
\* third the simplified prompt when the second ended with "No valid questions", and
\* the category-specific prompt when the second raised
PromptOfAttempt ==
    \A i \in Attempts :
        ai_log[i].prompt =
            IF i = 3 /\ ai_log[2].outcome \in {"no array", "validated"}
            THEN "simplified"
            ELSE create_prompt_for_category(ai_args.category, FALSE)

\* a third attempt was made after a second that raised
ThirdAfterException ==
    Len(ai_log) = 3 /\ ai_log[2].outcome \in {"generator raised", "validation raised"}

(***************************************************************************)
(* Concurrent sourcing requests (SpecThreads)                              *)
(***************************************************************************)
\* the threads whose worker is inside a call of self.generator
InFlight == {t \in Threads : th[t].pc = "inference"}

\* C26: at every moment at most one call of self.generator is in flight, also when a
\* quiz load and a regeneration run on their threads at the same time.
C26_OneFetchInFlight == Cardinality(InFlight) <= 1

(***************************************************************************)
(* The fillers of the fallback bank (SpecFillers)                          *)
(***************************************************************************)
\* the options are the correct answer, once, and three wrong ones, all different
OneCorrectThreeWrong(q) ==
    /\ Len(q.options) = 4
    /\ Cardinality(Range(q.options)) = 4
    /\ q.correct_answer \in Range(q.options)

\* C27: every filler of the fallback bank, for a category with a template of its own or
\* any other and for any difficulty, is kept by the sample filter, and its options are
\* one correct and three distinct wrong ones.
C27_FillersAccepted ==
    f_pc = "returned" =>
        /\ f_result = f_questions
        /\ \A q \in Range(f_questions) : OneCorrectThreeWrong(q)

\* the same, the filter keeping the fillers of the four categories with a template of
\* their own and dropping every filler of another category
FillersOfTemplatesAccepted ==
    f_pc = "returned" =>
        /\ f_result = IF f_questions[1].category \in TemplateCategories
                      THEN f_questions ELSE <<>>
        /\ \A q \in Range(f_questions) : OneCorrectThreeWrong(q)

\* the filter was given fillers of a category without a template
FillersDropped ==
    /\ f_pc = "returned" /\ Len(f_questions) = MaxFillers /\ f_result = <<>>
    /\ f_questions[1].category = <<"C","o","o","k","i","n","g">>

(***************************************************************************)
(* When the model is asked (Spec)                                          *)
(***************************************************************************)
\* AIGenerator.is_ready()
is_ready == is_model_ready

\* the model is disabled, or the transformers library is missing
PureFallback == use_fallback \/ ~transformers_available

HistoryCategories == {Geography, Movies}

\* C29: clear_history(category) leaves the seen-set of the category empty and the
\* seen-sets of the other categories as they were; clear_history() leaves every
\* seen-set empty; and filter_unseen_questions called next on a cleared category returns
\* all the records it is given.
C29_ClearedIsUnseen ==
    /\ (st_calls > 0 /\ st_call.op = "clear_history") =>
        \A c \in HistoryCategories :
            SeenOf(uh_seen, c) = IF st_call.category \in {<<>>, c} THEN {}
                                 ELSE SeenOf(st_call.before, c)
    /\ (st_calls > 0 /\ st_call.op = "filter_unseen_questions"
            /\ st_call.cleared # <<>>
            /\ st_call.cleared[1].category \in {<<>>, st_call.category}) =>
        st_result = st_call.questions

\* the user had seen the question about France; the category was cleared, and the
\* filter then returned the question
C29_Witness ==
    /\ st_calls = 2 /\ st_call.op = "filter_unseen_questions"
    /\ st_call.cleared # <<>>
    /\ st_call.cleared[1].category = st_call.category
    /\ Normalised(FranceQuestion) \in SeenOf(st_call.cleared[1].before, st_call.category)
    /\ st_call.questions = <<NileQuestion, FranceQuestion>>
    /\ st_result = st_call.questions

\* the records of a list whose fingerprint is not in the set, in the order of the list
RECURSIVE Unseen(_, _)
Unseen(questions, seen_set) ==
    IF questions = <<>> THEN <<>>
    ELSE (IF Normalised(Head(questions)) \in seen_set THEN <<>> ELSE <<Head(questions)>>)
            \o Unseen(Tail(questions), seen_set)

\* C30: filter_unseen_questions(category, records) returns, in their order, exactly the
\* records whose fingerprint is not in the seen-set of the category, whatever the
\* seen-sets of other categories hold; all of them when the category was never
\* recorded; and it changes no seen-set.
C30_FilterByCategory ==
    (st_calls > 0 /\ st_call.op = "filter_unseen_questions") =>
        /\ st_result = Unseen(st_call.questions, SeenOf(st_call.before, st_call.category))
        /\ st_call.category \notin DOMAIN st_call.before => st_result = st_call.questions
        /\ uh_seen = st_call.before

\* the user had seen the question about France in Geography and the one about the Nile
\* in Movies only: the filter for Geography returned the one about the Nile
C30_Witness ==
    /\ st_calls > 0 /\ st_call.op = "filter_unseen_questions"
    /\ st_call.category = Geography
    /\ Normalised(FranceQuestion) \in SeenOf(st_call.before, Geography)
    /\ Normalised(NileQuestion) \in SeenOf(st_call.before, Movies)
    /\ st_call.questions = <<NileQuestion, FranceQuestion>>
    /\ st_result = <<NileQuestion>>

(***************************************************************************)
(* Properties of get_questions: repeated records (SpecManager)             *)
(***************************************************************************)
\* no record is twice in the list
NoRecordTwice(list) == \A i, j \in 1..Len(list) : list[i] = list[j] => i = j

\* the store the call found held no record twice, and neither did new_questions
CallWithoutRepeats ==
    /\ \A d \in DOMAIN qm_held : NoRecordTwice(qm_held[d])
    /\ NoRecordTwice(qm_new)

\* C31: when the category store held no record twice and generate_questions returned
\* no record twice, the list get_questions returns holds no record twice, and each new
\* record is in its bucket of the store once more than before the call.
C31_NoRecordTwice ==
    (qm_pc = "returned" /\ CallWithoutRepeats) =>
        /\ NoRecordTwice(qm_result)
        /\ \A q \in Range(qm_new) :
                Count(cm_store[qm_args.category][BucketOf(q)], q)
                    = Count(qm_held[BucketOf(q)], q) + 1

\* What holds: when unseen_questions is a list of its own (not the bucket of the store)
\* each new record is in its bucket once more than before the call, and the list
\* returned holds no record twice unless a new record was in the store already.
NoRecordTwiceInOwnList ==
    (qm_pc = "returned" /\ CallWithoutRepeats /\ ~qm_alias) =>
        /\ \A q \in Range(qm_new) :
                Count(cm_store[qm_args.category][BucketOf(q)], q)
                    = Count(qm_held[BucketOf(q)], q) + 1
        /\ (\A q \in Range(qm_new), d \in DOMAIN qm_held : q \notin Range(qm_held[d]))
                => NoRecordTwice(qm_result)

\* a call for two questions found one in the store, none of them new, and returned a
\* new record twice
NewRecordTwice ==
    /\ qm_pc = "returned" /\ CallWithoutRepeats
    /\ Len(qm_new) = 1
    /\ \A d \in DOMAIN qm_held : qm_new[1] \notin Range(qm_held[d])
    /\ qm_result = <<qm_new[1], qm_new[1]>>

(***************************************************************************)
(* Properties of remove_question (SpecRemoval)                             *)
(***************************************************************************)
\* remove_question has returned for a record and no other removal followed
Removed(q) ==
    /\ st_calls > 0 /\ st_call.op = "remove_question" /\ st_pc = "returned"
    /\ st_call.question = q

\* C32: after remove_question(q) has completed, no later get_questions call for the
\* category and the difficulty of q returns q.
C32_RemovedIsNotReturned ==
    \A q \in {FranceQuestion, NileQuestion, KangarooQuestion} :
        (/\ Removed(q) /\ qm_pc = "returned"
         /\ qm_args.category = q.category /\ qm_args.difficulty = q.difficulty)
            => q \notin Range(qm_result)

\* What holds: remove_question takes the first record equal to q out of self.questions,
\* writes the rest to data/questions.json, and leaves the category stores and their
\* files as they were, so until the next call of get_questions the store that serves
\* the category still holds q.
RemovedFromAggregateOnly ==
    \A q \in {FranceQuestion, NileQuestion, KangarooQuestion} :
        (Removed(q) /\ qm_calls = 0) =>
            /\ qm_questions = list_remove(st_call.before, q)
            /\ st_calls = 1 => Count(qm_questions, q) = 0
            /\ qm_file.content = qm_questions
            /\ q \in Range(cm_store[q.category][q.difficulty])
            /\ q \in Range(StoreFile(q.category).content[q.difficulty])

\* the question about France was removed, the store held it alone, and a later call
\* for one easy Geography question, which sourced nothing, returned it
RemovedYetReturned ==
    /\ Removed(FranceQuestion) /\ qm_pc = "returned"
    /\ qm_args = [category |-> Geography, difficulty |-> easy, count |-> 1]
    /\ qm_new = <<>>
    /\ qm_result = <<FranceQuestion>>

(***************************************************************************)
(* Properties of generate_questions: the labels of the records (Spec)      *)
(***************************************************************************)
\* the record carries the category and the difficulty of the call
Labelled(q, args) ==
    /\ "category" \in DOMAIN q /\ q.category = args.category
    /\ "difficulty" \in DOMAIN q /\ q.difficulty = args.difficulty

\* C33: every record generate_questions(category, difficulty, count) returns carries
\* the requested category and the requested difficulty, also when the fallback bank
\* does not know the category or the difficulty.
C33_RequestedLabels ==
    gq_pc = "returned" => \A q \in Range(gq_result) : Labelled(q, gq_args)

\* What holds: the records carry the requested category and difficulty whenever the
\* model, the fallback bank and the refill contributed nothing: the API stage and the
\* guaranteed stage write the arguments of the call into each record, and the curated
\* set is read under the requested difficulty.
LabelsOfApiAndGuaranteed ==
    (/\ gq_pc = "returned"
     /\ \A e \in Entries : e.stage \in {"model", "fallback", "refill"} => e.added = 0)
        => \A q \in Range(gq_result) : Labelled(q, gq_args)

\* a call for a category the bank does not know had a record from the API and one
\* from the guaranteed stage, and both carry the category of the call
LabelsWritten ==
    /\ gq_pc = "returned"
    /\ gq_args.category \notin DOMAIN fallback_questions
    /\ Len(gq_result) >= 2
    /\ \E e \in Entries : e.stage = "api" /\ e.added > 0
    /\ \E e \in Entries : e.stage = "guaranteed" /\ e.added > 0
    /\ \A q \in Range(gq_result) : Labelled(q, gq_args)

\* a call for a category the bank does not know returned a record of another category
LabelOfAnotherCategory ==
    /\ gq_pc = "returned"
    /\ gq_args.category \notin DOMAIN fallback_questions
    /\ \E q \in Range(gq_result) : q.category \in DOMAIN fallback_questions

(***************************************************************************)
(* Properties of generate_questions: repeated texts (Spec)                 *)
(***************************************************************************)
\* no two records of the list have the same question text
NoTextTwice(list) ==
    \A i, j \in 1..Len(list) : list[i].question = list[j].question => i = j

\* C34: for every category, difficulty and count, the list generate_questions returns
\* holds no two records with the same question text.
C34_NoTextTwice ==
    gq_pc = "returned" => NoTextTwice(gq_result)

\* What holds: the curated stage, the one stage that looks at the list before it adds
\* (line 1270), leaves no record twice in a list that held none twice.
CuratedAddsNoRecordTwice ==
    [][(gq_pc = "curated" /\ gq_pc' # "curated" /\ NoRecordTwice(gq_questions))
            => NoRecordTwice(gq_questions')]_vars

\* the refill appended a record the list held already
RefillRepeats ==
    /\ gq_pc = "returned"
    /\ \E e \in Entries : e.stage = "refill" /\ e.added > 0
    /\ \A e \in Entries : e.stage \in {"model", "api", "curated", "guaranteed"} => e.added = 0
    /\ Len(gq_result) = 2 /\ gq_result[1] = gq_result[2]

\* the guaranteed stage appended a text the list held already
GuaranteedRepeats ==
    /\ gq_pc = "returned"
    /\ \E e \in Entries : e.stage = "guaranteed" /\ e.added = 1
    /\ \E i \in 1..(Len(gq_result) - 1) :
            gq_result[i].question = gq_result[Len(gq_result)].question

(***************************************************************************)
(* Properties of a store loaded from any file (SpecLoaded)                 *)
(***************************************************************************)
\* C35: whatever JSON content its file had when loaded, a CategoryQuestionManager
\* holds exactly the three buckets easy, medium and hard, and add_questions never
\* fails on a missing bucket.
C35_ThreeBuckets ==
    /\ \A c \in DOMAIN cm_store : DOMAIN cm_store[c] = {easy, medium, hard}
    /\ (st_calls > 0 /\ st_call.op = "add_questions") => ~st_call.key_error

\* What holds: a store whose file has the key "medium" never fails on a missing
\* bucket, and a store whose file has the three keys and no other holds exactly the
\* three buckets.
BucketsOfTheFile ==
    \A c \in DOMAIN cm_store :
        /\ DOMAIN cm_store[c] = IF StoreFile(c).exists /\ StoreFile(c).readable
                                THEN DOMAIN StoreFile(c).content
                                ELSE {easy, medium, hard}
        /\ (/\ st_calls > 0 /\ st_call.op = "add_questions" /\ st_call.category = c
            /\ medium \in DOMAIN st_call.before) => ~st_call.key_error

\* the file had the bucket easy only: add_questions of a record of difficulty Hard
\* raised KeyError, and nothing was written
MissingBucket ==
    /\ st_calls > 0 /\ st_call.op = "add_questions" /\ st_pc = "raised"
    /\ DOMAIN st_call.before = {easy}
    /\ st_call.key_error /\ ~st_call.saved
    /\ cm_store[Geography] = st_call.before

(***************************************************************************)
(* Properties of the files of the data directory (SpecFiles)               *)
(***************************************************************************)
\* C36: no two category names that have a manager map to the same file, and the file
\* of no category is the file of the generator's curated Geography set or of its
\* fallback bank.
C36_SingleOwner ==
    /\ \A c1, c2 \in DOMAIN cm_store :
            category_file(c1) = category_file(c2) => c1 = c2
    /\ \A c \in DOMAIN cm_store : category_file(c) \notin {geography_file, fallback_file}

\* What holds: the eight categories the QuestionManager starts with have eight files,
\* none of them the fallback bank file, and only that of Geography is the file of the
\* curated set.
DefaultCategoriesApart ==
    /\ \A c1, c2 \in Range(categories) :
            category_file(c1) = category_file(c2) => c1 = c2
    /\ \A c \in Range(categories) :
        /\ category_file(c) # fallback_file
        /\ category_file(c) = geography_file <=> c = Geography

\* the categories Geography and geography have a manager each; the second wrote the
\* file they share, which no longer holds what the first has in memory
TwoOwnersOneFile ==
    /\ {Geography, <<"g","e","o","g","r","a","p","h","y">>} \subseteq DOMAIN cm_store
    /\ category_file(Geography) = category_file(<<"g","e","o","g","r","a","p","h","y">>)
    /\ st_calls > 0 /\ st_call.op = "add_questions" /\ st_call.category = <<"g","e","o","g","r","a","p","h","y">>
    /\ st_call.saved
    /\ StoreFile(Geography).content = cm_store[<<"g","e","o","g","r","a","p","h","y">>]
    /\ StoreFile(Geography).content # cm_store[Geography]

\* the category Fallback has a manager, which holds the content of the generator's
\* fallback bank file
BankFileOwnedByStore ==
    /\ <<"F","a","l","l","b","a","c","k">> \in DOMAIN cm_store
    /\ category_file(<<"F","a","l","l","b","a","c","k">>) = fallback_file
    /\ cm_store[<<"F","a","l","l","b","a","c","k">>] = fallback_questions

(***************************************************************************)
(* Properties of change_model's result (SpecChanges)                       *)
(***************************************************************************)
\* the step is the return of a change_model call with True, the model being enabled
ReturnsTrue ==
    /\ chg_pc' = "returned" /\ (chg_pc # "returned" \/ chg_calls' # chg_calls)
    /\ chg_result' = TRUE
    /\ transformers_available /\ ~use_fallback

\* C37: when change_model(name) returns True with the model enabled, the readiness
\* flag is true, the generator handle is present and the current model name is name,
\* also when the first load attempt of name failed and a retry succeeded.
C37_TrueMeansChanged ==
    [][ReturnsTrue =>
        /\ is_model_ready'
        /\ generator' # None
        /\ model_name' = chg_args']_vars

\* What holds: for a call with another name, made when the loading thread of __init__
\* has ended, whose first load attempt succeeded, True means that the flag is true and
\* that the generator was built for name, which is the current model name.
ChangedAtFirstAttempt ==
    [][(ReturnsTrue /\ chg_loads' = 1 /\ chg_before'.load_pc = "done") =>
        /\ is_model_ready'
        /\ generator' = chg_args'
        /\ model_name' = chg_args']_vars

\* change_model("distilgpt2"), called when the loading thread had ended, failed at its
\* first attempt, loaded gpt2 at the second and returned True
RetriedWithAnotherModel ==
    /\ chg_calls > 0 /\ chg_pc = "returned" /\ chg_result = TRUE
    /\ chg_before.load_pc = "done"
    /\ chg_args = "distilgpt2" /\ chg_loads = 2
    /\ is_model_ready /\ generator = "gpt2" /\ model_name = "gpt2"

\* change_model was called with the current name while the model was not loaded, and
\* returned True
SameNameNotReady ==
    /\ chg_calls > 0 /\ chg_pc = "returned" /\ chg_result = TRUE
    /\ transformers_available /\ ~use_fallback
    /\ chg_before.load_pc = "done" /\ chg_before.model_name = chg_args
    /\ ~chg_before.is_model_ready /\ chg_loads = 0
    /\ ~is_model_ready /\ generator = None

(***************************************************************************)
(* Properties of the readiness flag under two threads (SpecChanges)        *)
(***************************************************************************)
\* C38: with the model enabled, whenever the readiness flag is true the generator
\* handle is present and was built for the current model name, however the loading
\* thread of __init__ and a change_model call on another thread interleave.
C38_ReadyMeansBuilt ==
    (transformers_available /\ ~use_fallback /\ is_model_ready) =>
        generator # None /\ generator = model_name

\* What holds: as long as change_model has not been called, a true flag means that the
\* three handles were built for the current model name.
ReadyMeansBuiltAtStartup ==
    (transformers_available /\ ~use_fallback /\ is_model_ready /\ chg_calls = 0) =>
        /\ generator = model_name /\ local_model = model_name /\ tokenizer = model_name
        /\ load_pc = "done"

\* the loading thread of __init__ was inside pipeline() for distilgpt2 when
\* change_model("gpt2") reset the fields; it then assigned the generator and set the
\* flag while change_model was still loading
ReadyForAnotherModel ==
    /\ transformers_available /\ ~use_fallback
    /\ chg_calls = 1 /\ chg_args = "gpt2" /\ chg_pc \in LoadPositions
    /\ chg_before.load_pc = "pipeline"
    /\ load_pc = "done"
    /\ is_model_ready /\ generator = "distilgpt2" /\ model_name = "gpt2"

====
